---- MODULE Spec2Model ----
(***************************************************************************)
(* Process & service supervision of dev-launch (src-tauri/src/process.rs   *)
(* and src-tauri/src/webhook_server.rs).                                   *)
(*                                                                         *)
(* Tauri runs the async commands on a multi-threaded runtime, so commands  *)
(* interleave.  Every action below is one critical section of the code     *)
(* (one hold of a mutex) or one blocking call made outside any lock; a     *)
(* command that touches shared state more than once is split into the      *)
(* corresponding steps and keeps its locals in a call frame.               *)
(*                                                                         *)
(* The registry mutex is never poisoned: no code that holds it can panic   *)
(* (insert, remove, clear, len, iter), so every `if let Ok(..) = lock()`   *)
(* takes its Ok branch.  kill_process_internal is the cfg(unix) branch.     *)
(*                                                                         *)
(* `last` holds the command that returned in the step just taken, with its *)
(* result, so that "right after the call returns" is a state predicate;    *)
(* every other step resets it.                                             *)
(***************************************************************************)
EXTENDS Naturals, Integers, Sequences, FiniteSets, Bags, TLC

\* ------------------------------------------------------------------ bounds
MaxPids == 2          \* OS process identifiers 1..MaxPids
MaxStarts == 2        \* successful starts of the webhook server per behaviour
MaxRequests == 2      \* requests accepted per behaviour
MaxInflight == 2      \* request handlers running at the same time
MaxTunnels == 2       \* tunnel subprocesses launched per behaviour
MaxFrags == 2         \* fragments a log line is made of
MaxTokens == 2        \* tokens in the configuration
MaxLines == 2         \* lines a child writes to one of its streams

\* --------------------------------------------------------- program constants
MaxEvents == 100      \* `if events.len() > 100`
BodyLimit == 1048576  \* `to_bytes(.., 1024 * 1024)`

Pids == 1..MaxPids
Gens == 1..MaxStarts                \* the server instances, in start order
FixedPort == 1                      \* the port the frontend asks for
RequestPorts == {0, FixedPort}      \* 0 asks the OS for an ephemeral port
Children == 1..MaxTunnels           \* the tunnel subprocesses, in launch order
Streams == {"stdout", "stderr"}

VARIABLES
    procs,        \* OS view: pid -> "free" | "group" | "plain"
    registry,     \* PROCESS_REGISTRY: the set of tracked pids
    killCall,     \* frame of the kill_process call in flight
    killAllCall,  \* frame of the kill_all_processes call in flight
    readers,      \* the reader threads running, <<pid, stream>>
    server,       \* SERVER: the singleton Option<WebhookServer>
    buffers,      \* the events Vec of each server instance (an Arc shared with
                  \* the instance's handlers, alive while any of them holds it)
    tasks,        \* the axum::serve task of each instance
    handlers,     \* the handle_webhook calls in flight
    nextId,       \* the next fresh event id (uuid)
    accepted,     \* requests accepted so far in this behaviour
    appended,     \* per instance, the events pushed since its buffer was last emptied
    captured,     \* every event pushed to a buffer so far
    sink,         \* every event emitted to the frontend ("webhook-received")
    responses,    \* the responses sent, <<request id, status>>
    ngrok,        \* NGROK_PROCESS: the tracked Child, 0 for None
    children,     \* OS view of the tunnel subprocesses launched
    pipes,        \* per reader, the lines its child has written and it has not read
    emittedBy,    \* per reader, the events it has emitted to the frontend
    line,         \* the line a reader read last
    remote,       \* the remote URL of the repository the git helper looks at
    tokens,       \* the configured GitTokens, in list order
    serverLock,   \* the holder of the SERVER mutex (a caller), 0 when free
    eventsLock,   \* per instance, the holder of its events mutex
    calls,        \* the webhook commands in flight, per caller
    last          \* the command that returned in the last step, with its result

procVars == <<procs, registry, killCall, killAllCall, readers>>
webVars == <<server, buffers, tasks, handlers, nextId, accepted, appended,
             captured, sink, responses>>
tunnelVars == <<ngrok, children>>
streamVars == <<pipes, emittedBy, line>>
inputVars == <<remote, tokens>>
lockVars == <<serverLock, eventsLock, calls>>
vars == <<procs, registry, killCall, killAllCall, readers,
          server, buffers, tasks, handlers, nextId, accepted, appended,
          captured, sink, responses, ngrok, children,
          pipes, emittedBy, line, remote, tokens,
          serverLock, eventsLock, calls, last>>

\* No command returned in this step (a background step, or a command that is
\* still running).
NoReturn == [op |-> "none", arg |-> 0, res |-> "none", info |-> <<>>]

Return(op, arg, res, info) == [op |-> op, arg |-> arg, res |-> res, info |-> info]

\* The start or stop call that returned in the step before this one, if any:
\* what a caller that issues two calls in a row saw from the first.
Previous ==
    IF last.op \in {"start", "stop"} THEN <<last.op, last.res>> ELSE <<"none", "none">>

\* ------------------------------------------------------- process supervisor

NoKill == [active |-> FALSE, pid |-> 0, result |-> "none", group |-> "none", single |-> "none"]
NoKillAll == [active |-> FALSE, snapshot |-> {}, todo |-> {}, killed |-> 0,
              attempted |-> {}, succeeded |-> {}]

\* What `kill -TERM -<pid>` can report: the exit status of the kill utility, or
\* "error" when the utility could not be run at all (Command::status is Err).
\* The group signal succeeds only if a process group <pid> exists.
GroupOutcomes(p) ==
    (IF procs[p] = "group" THEN {"success", "failure"} ELSE {"failure"}) \cup {"error"}

\* What `kill -TERM <pid>` can report; it succeeds only if process <pid> exists.
SingleOutcomes(p) ==
    (IF procs[p] # "free" THEN {"success", "failure"} ELSE {"failure"}) \cup {"error"}

\* Mutant: the first attempt's failure to run is propagated with `?`, as the
\* Windows branch does.
Mut_KillResult_GroupErr(group, single) ==
    IF group = "success" THEN "true"
    ELSE IF group = "error" THEN "Err"
    ELSE IF single = "success" THEN "true"
    ELSE IF single = "failure" THEN "false"
    ELSE "Err"

\* The value kill_process_internal returns from the two attempts' outcomes
\* (single = "skipped" when the group signal succeeded and the function
\* returned early).
KillResult(group, single) ==
    IF group = "success" THEN "true"
    ELSE IF single = "success" THEN "true"
    ELSE IF single = "failure" THEN "false"
    ELSE "Err"

\* Mutant: no early return after the group signal; the single process is
\* signalled every time.
Mut_KillAttempts_Both(p) == GroupOutcomes(p) \X SingleOutcomes(p)

\* kill_process_internal(pid): the pairs <<group outcome, single outcome>> the
\* two attempts can produce.
KillAttempts(p) ==
    {<<g, s>> \in (GroupOutcomes(p) \X (SingleOutcomes(p) \cup {"skipped"})) :
        (g = "success") <=> (s = "skipped")}

\* Mutant: the pid is returned without being registered.
Mut_InsertPid_Skip(reg, p) == reg

\* registry.insert(pid)
InsertPid(reg, p) == reg \cup {p}

\* Mutant: the pid is dropped whatever the kill reported.
Mut_RegistryAfterKill_Always(reg, p, result) == reg \ {p}

\* kill_process: the registry is touched only when the result is Ok(true).
RegistryAfterKill(reg, p, result) ==
    IF result = "true" THEN reg \ {p} ELSE reg

\* kill_all_processes: `kill_process_internal(pid).unwrap_or(false)` counts.
CountKill(killed, result) ==
    IF result = "true" THEN killed + 1 ELSE killed

\* Mutant: only the pids whose kill succeeded are dropped.
Mut_RegistryAfterKillAll_Killed(reg) == reg \ killAllCall.succeeded

\* Mutant: an early return on an empty snapshot, before the clear.
Mut_RegistryAfterKillAll_Early(reg) == IF killAllCall.snapshot = {} THEN reg ELSE {}

\* kill_all_processes: registry.clear()
RegistryAfterKillAll(reg) == {}

\* What kill_process_internal can return.
KillResults == {"true", "false", "Err"}

\* The loop of both forms of kill-all over the snapshot pids, results[p] being
\* what kill_process_internal(p) returns: `unwrap_or(false)`, `killed += 1`.
RECURSIVE CountKills(_, _)
CountKills(pids, results) ==
    IF pids = {} THEN 0
    ELSE LET p == CHOOSE q \in pids : TRUE IN
         CountKill(CountKills(pids \ {p}, results), results[p])

\* kill_all_processes run from its first statement to its return with no
\* other command in between: what it returns and the registry it leaves.
kill_all_processes(reg, results) ==
    [res |-> "Ok", count |-> CountKills(reg, results),
     registry |-> RegistryAfterKillAll(reg)]

\* Mutant: the synchronous form gives up at the first kill that is Err.
Mut_kill_all_processes_internal_Propagates(reg, results) ==
    IF \E p \in reg : results[p] = "Err"
    THEN [res |-> "Err", count |-> 0, registry |-> reg]
    ELSE [res |-> "Ok", count |-> CountKills(reg, results), registry |-> {}]

\* kill_all_processes_internal, the synchronous form, run the same way.
kill_all_processes_internal(reg, results) ==
    [res |-> "Ok", count |-> CountKills(reg, results),
     registry |-> RegistryAfterKillAll(reg)]

\* The results kill_process_internal can give for each pid of a set.
KillResultsOf(pids) ==
    {results \in [pids -> KillResults] :
        \A p \in pids : \E a \in KillAttempts(p) : results[p] = KillResult(a[1], a[2])}

\* The two threads spawn_process starts for a child: one per captured stream.
ReadersOf(p) == {<<p, st>> : st \in Streams}

\* The pipes of a new child are empty and its readers have emitted nothing.
AtSpawn(f, p) == [r \in DOMAIN f |-> IF r \in ReadersOf(p) THEN <<>> ELSE f[r]]

\* spawn_process, success: the OS starts the child as leader of a new process
\* group under an unused pid; the pid is inserted and returned.
spawn_process(p) ==
    /\ procs[p] = "free"
    /\ procs' = [procs EXCEPT ![p] = "group"]
    /\ registry' = InsertPid(registry, p)
    /\ readers' = readers \cup ReadersOf(p)
    /\ pipes' = AtSpawn(pipes, p)
    /\ emittedBy' = AtSpawn(emittedBy, p)
    /\ last' = Return("spawn", p, "Ok", <<>>)
    /\ UNCHANGED <<killCall, killAllCall, webVars, tunnelVars, inputVars, line, lockVars>>

\* Mutant: the error is returned after a pid was registered and its readers
\* were started.
Mut_spawn_process_fails_Tracked ==
    /\ \E p \in Pids :
         /\ procs[p] = "free"
         /\ registry' = InsertPid(registry, p)
         /\ readers' = readers \cup ReadersOf(p)
    /\ last' = Return("spawn", 0, "SpawnError", <<>>)
    /\ UNCHANGED <<procs, killCall, killAllCall, webVars, tunnelVars, inputVars, streamVars, lockVars>>

\* spawn_process, failure: cmd.spawn() is Err and `?` returns before the
\* registry is touched and before a reader thread is started.
spawn_process_fails ==
    /\ last' = Return("spawn", 0, "SpawnError", <<>>)
    /\ UNCHANGED <<procVars, webVars, tunnelVars, inputVars, streamVars, lockVars>>

\* kill_process, first half: kill_process_internal(pid) runs (no lock held).
kill_process_signal(p) ==
    /\ ~killCall.active
    /\ \E a \in KillAttempts(p) :
         killCall' = [active |-> TRUE, pid |-> p, result |-> KillResult(a[1], a[2]),
                      group |-> a[1], single |-> a[2]]
    /\ last' = NoReturn
    /\ UNCHANGED <<readers, procs, registry, killAllCall, webVars, tunnelVars, inputVars, streamVars, lockVars>>

\* kill_process, second half: the registry update and the return of `result`.
kill_process_finish ==
    /\ killCall.active
    /\ registry' = RegistryAfterKill(registry, killCall.pid, killCall.result)
    /\ last' = Return("kill", killCall.pid, killCall.result,
                      [group |-> killCall.group, single |-> killCall.single])
    /\ killCall' = NoKill
    /\ UNCHANGED <<readers, procs, killAllCall, webVars, tunnelVars, inputVars, streamVars, lockVars>>

\* kill_all_processes: the snapshot taken under the lock.
kill_all_snapshot ==
    /\ ~killAllCall.active
    /\ killAllCall' = [active |-> TRUE, snapshot |-> registry, todo |-> registry,
                       killed |-> 0, attempted |-> {}, succeeded |-> {}]
    /\ last' = NoReturn
    /\ UNCHANGED <<readers, procs, registry, killCall, webVars, tunnelVars, inputVars, streamVars, lockVars>>

\* kill_all_processes: one iteration of `for pid in pids` (HashSet order is
\* arbitrary).
kill_all_step(p) ==
    /\ killAllCall.active
    /\ p \in killAllCall.todo
    /\ \E a \in KillAttempts(p) :
         LET r == KillResult(a[1], a[2]) IN
         killAllCall' = [killAllCall EXCEPT
                            !.todo = @ \ {p},
                            !.killed = CountKill(@, r),
                            !.attempted = @ \cup {p},
                            !.succeeded = IF r = "true" THEN @ \cup {p} ELSE @]
    /\ last' = NoReturn
    /\ UNCHANGED <<readers, procs, registry, killCall, webVars, tunnelVars, inputVars, streamVars, lockVars>>

\* kill_all_processes: the loop is over; clear the registry, return the count.
kill_all_clear ==
    /\ killAllCall.active
    /\ killAllCall.todo = {}
    /\ registry' = RegistryAfterKillAll(registry)
    /\ last' = Return("killAll", killAllCall.snapshot, killAllCall.killed,
                      [attempted |-> killAllCall.attempted,
                       succeeded |-> killAllCall.succeeded])
    /\ killAllCall' = NoKillAll
    /\ UNCHANGED <<readers, procs, killCall, webVars, tunnelVars, inputVars, streamVars, lockVars>>

\* The tray's quit item: kill_all_processes_internal on the main thread, its
\* result dropped (`let _ =`), then the exit.  The call is taken as one step;
\* info.async is what kill_all_processes returns from the same registry and
\* the same kill results.
tray_quit ==
    /\ ~killAllCall.active
    /\ \E results \in KillResultsOf(registry) :
         LET sync == kill_all_processes_internal(registry, results) IN
         /\ registry' = sync.registry
         /\ last' = Return("quit", registry, sync,
                           [results |-> results,
                            async |-> kill_all_processes(registry, results)])
    /\ UNCHANGED <<procs, killCall, killAllCall, readers, webVars, tunnelVars, inputVars, streamVars, lockVars>>

\* Mutant: the supervisor notices the exit and untracks the pid.
Mut_process_exit_Untracks(p) ==
    /\ procs[p] # "free"
    /\ procs' = [procs EXCEPT ![p] = "free"]
    /\ registry' = registry \ {p}
    /\ readers' = readers \ ReadersOf(p)
    /\ last' = NoReturn
    /\ UNCHANGED <<killCall, killAllCall, webVars, tunnelVars, inputVars, streamVars, lockVars>>

\* A process ends (by itself or after a signal); nothing in the supervisor
\* observes it.  Its pipes close, which ends the readers still on them.
process_exit(p) ==
    /\ procs[p] # "free"
    /\ procs' = [procs EXCEPT ![p] = "free"]
    /\ readers' = readers \ ReadersOf(p)
    /\ last' = NoReturn
    /\ UNCHANGED <<registry, killCall, killAllCall, webVars, tunnelVars, inputVars, streamVars, lockVars>>

\* A reader stops before its child ends: it has read all that was written and
\* the stream was closed by the child, or the next line fails to decode
\* (`map_while(Result::ok)`).  The thread ends; nothing is emitted or returned.
reader_stops(p, st) ==
    /\ <<p, st>> \in readers
    /\ IF Len(pipes[<<p, st>>]) = 0 THEN TRUE ELSE ~Head(pipes[<<p, st>>]).ok
    /\ readers' = readers \ {<<p, st>>}
    /\ last' = NoReturn
    /\ UNCHANGED <<procs, registry, killCall, killAllCall, webVars, tunnelVars, inputVars, streamVars, lockVars>>

\* A process the supervisor did not spawn appears (found by the ports monitor).
foreign_process(p) ==
    /\ procs[p] = "free"
    /\ procs' = [procs EXCEPT ![p] = "plain"]
    /\ last' = NoReturn
    /\ UNCHANGED <<readers, registry, killCall, killAllCall, webVars, tunnelVars, inputVars, streamVars, lockVars>>

\* What `kill -0 <pid>` makes of the pid: the command ran and found the
\* process or not, or the command could not be run.
ProbeOutcomes(p) ==
    {[running |-> procs[p] # "free", pid |-> p], [running |-> FALSE, pid |-> 0]}

\* get_process_status(pid): the registry is not looked at.
get_process_status(p) ==
    /\ \E status \in ProbeOutcomes(p) : last' = Return("process_status", p, status, <<>>)
    /\ UNCHANGED <<procVars, webVars, tunnelVars, inputVars, streamVars, lockVars>>

\* get_running_count: the size of the registry.
get_running_count ==
    /\ last' = Return("count", 0, Cardinality(registry), <<>>)
    /\ UNCHANGED <<procVars, webVars, tunnelVars, inputVars, streamVars, lockVars>>

\* ------------------------------------------------------------ text functions
\* A string is the sequence of its characters, each a one-character string.
\* The lines and URLs below are ASCII.

UpperChars == <<"A", "B", "C", "D", "E", "F", "G", "H", "I", "J", "K", "L", "M">>
                  \o <<"N", "O", "P", "Q", "R", "S", "T", "U", "V", "W", "X", "Y", "Z">>
LowerChars == <<"a", "b", "c", "d", "e", "f", "g", "h", "i", "j", "k", "l", "m">>
                  \o <<"n", "o", "p", "q", "r", "s", "t", "u", "v", "w", "x", "y", "z">>
Digits == <<"0", "1", "2", "3", "4", "5", "6", "7", "8", "9">>

\* The strings made of at most n of the fragments in F, one after the other.
RECURSIVE Texts(_, _)
Texts(F, n) ==
    IF n = 0 THEN {<<>>}
    ELSE LET shorter == Texts(F, n - 1) IN
         shorter \cup {t \o f : t \in shorter, f \in F}

\* char::to_lowercase
to_lowercase_char(c) ==
    IF \E i \in DOMAIN UpperChars : UpperChars[i] = c
    THEN LowerChars[CHOOSE i \in DOMAIN UpperChars : UpperChars[i] = c]
    ELSE c

\* str::to_lowercase
to_lowercase(s) == [i \in DOMAIN s |-> to_lowercase_char(s[i])]

\* pat occurs in s at position i (1-based).
OccursAt(s, pat, i) ==
    /\ i >= 1
    /\ i + Len(pat) - 1 <= Len(s)
    /\ SubSeq(s, i, i + Len(pat) - 1) = pat

\* str::contains
contains(s, pat) == \E i \in 1..(Len(s) + 1) : OccursAt(s, pat, i)

\* str::starts_with
starts_with(s, pat) == OccursAt(s, pat, 1)

\* str::ends_with
ends_with(s, pat) == OccursAt(s, pat, Len(s) - Len(pat) + 1)

\* ------------------------------------------------------------- log classifier

\* Mutant: the warn markers are looked for before the error markers.
Mut_detect_log_level_WarnFirst(msg) ==
    LET lower == to_lowercase(msg) IN
    IF contains(lower, <<"w", "a", "r", "n">>) \/ contains(lower, <<"[", "w", "r", "n", "]">>) THEN "warn"
    ELSE IF contains(lower, <<"e", "r", "r", "o", "r">>) \/ contains(lower, <<"[", "e", "r", "r", "]">>) THEN "error"
    ELSE IF contains(lower, <<"d", "e", "b", "u", "g">>) \/ contains(lower, <<"[", "d", "b", "g", "]">>) THEN "debug"
    ELSE "info"

\* detect_log_level
detect_log_level(msg) ==
    LET lower == to_lowercase(msg) IN
    IF contains(lower, <<"e", "r", "r", "o", "r">>) \/ contains(lower, <<"[", "e", "r", "r", "]">>) THEN "error"
    ELSE IF contains(lower, <<"w", "a", "r", "n">>) \/ contains(lower, <<"[", "w", "r", "n", "]">>) THEN "warn"
    ELSE IF contains(lower, <<"d", "e", "b", "u", "g">>) \/ contains(lower, <<"[", "d", "b", "g", "]">>) THEN "debug"
    ELSE "info"

IsDigit(c) == \E i \in DOMAIN Digits : Digits[i] = c
DigitValue(c) == (CHOOSE i \in DOMAIN Digits : Digits[i] = c) - 1

\* The position after the run of digits that starts at position i of s (i
\* itself when s has no digit there).
DigitsEnd(s, i) ==
    CHOOSE j \in i..(Len(s) + 1) :
        /\ \A k \in i..(j - 1) : IsDigit(s[k])
        /\ j <= Len(s) => ~IsDigit(s[j])

\* The position after the run of blanks that starts at position i of s.
BlanksEnd(s, i) ==
    CHOOSE j \in i..(Len(s) + 1) :
        /\ \A k \in i..(j - 1) : s[k] = " "
        /\ j <= Len(s) => s[j] # " "

\* The number a string of digits writes, as u16's from_str computes it: digit
\* by digit with checked arithmetic; Overflow stands for every number above
\* PortMax.
PortMax == 65535
Overflow == PortMax + 1
RECURSIVE DigitsNumber(_)
DigitsNumber(ds) ==
    IF ds = <<>> THEN 0
    ELSE LET front == DigitsNumber(SubSeq(ds, 1, Len(ds) - 1))
             n == front * 10 + DigitValue(ds[Len(ds)])
         IN  IF front = Overflow \/ n > PortMax THEN Overflow ELSE n

\* Mutant: the port is parsed as a wider integer and cut to 16 bits.
Mut_parse_u16_Wrap(ds) ==
    LET n == DigitsNumber(ds) IN
    IF n = Overflow THEN [ok |-> TRUE, value |-> 0] ELSE [ok |-> TRUE, value |-> n]

\* `port_match.as_str().parse::<u16>()` on a non-empty string of digits
parse_u16(ds) ==
    LET n == DigitsNumber(ds) IN
    IF n = Overflow THEN [ok |-> FALSE, value |-> 0] ELSE [ok |-> TRUE, value |-> n]

\* format!("{}", port)
RECURSIVE Decimal(_)
Decimal(n) ==
    IF n < 10 THEN <<Digits[n + 1]>>
    ELSE Decimal(n \div 10) \o <<Digits[(n % 10) + 1]>>

NoCaptures == [matched |-> FALSE, text |-> <<>>, digits |-> <<>>]

\* URL_REGEX without its digits: `https?://(?:localhost|127\.0\.0\.1|0\.0\.0\.0):`
UrlHeads ==
    { <<"h", "t", "t", "p", ":", "/", "/", "l", "o", "c", "a", "l", "h", "o", "s", "t", ":">>,
      <<"h", "t", "t", "p", "s", ":", "/", "/", "l", "o", "c", "a", "l", "h", "o", "s", "t", ":">>,
      <<"h", "t", "t", "p", ":", "/", "/", "1", "2", "7", ".", "0", ".", "0", ".", "1", ":">>,
      <<"h", "t", "t", "p", "s", ":", "/", "/", "1", "2", "7", ".", "0", ".", "0", ".", "1", ":">>,
      <<"h", "t", "t", "p", ":", "/", "/", "0", ".", "0", ".", "0", ".", "0", ":">>,
      <<"h", "t", "t", "p", "s", ":", "/", "/", "0", ".", "0", ".", "0", ".", "0", ":">> }

\* The positions after a match of URL_REGEX's head at position i, digit next.
UrlDigitsAt(s, i) ==
    {i + Len(h) : h \in {h \in UrlHeads : OccursAt(s, h, i)}} \cap
        {j \in 1..Len(s) : IsDigit(s[j])}

\* URL_REGEX.captures(msg): the leftmost match, `(\d+)` taking the whole run
\* of digits; text is group 0 and digits group 1.
url_captures(s) ==
    LET starts == {i \in 1..Len(s) : UrlDigitsAt(s, i) # {}} IN
    IF starts = {} THEN NoCaptures
    ELSE LET i == CHOOSE a \in starts : \A b \in starts : a <= b
             d == CHOOSE j \in UrlDigitsAt(s, i) : TRUE
             e == DigitsEnd(s, d)
         IN  [matched |-> TRUE, text |-> SubSeq(s, i, e - 1),
              digits |-> SubSeq(s, d, e - 1)]

\* PORT_REGEX's first alternation.
PortKeywords ==
    { <<"l", "i", "s", "t", "e", "n", "i", "n", "g">>,
      <<"r", "e", "a", "d", "y">>,
      <<"r", "u", "n", "n", "i", "n", "g">>,
      <<"s", "t", "a", "r", "t", "e", "d">>,
      <<"s", "e", "r", "v", "e", "r">>,
      <<"l", "o", "c", "a", "l">> }

\* The positions PORT_REGEX can be at before its digits, for a match that
\* starts at position i of the lower-cased line:
\* `(?:listening|..|local)\s+(?:on|at)?\s*(?:port\s+)?:?`
PortDigitsAt(lower, i) ==
    LET afterWord == {i + Len(w) : w \in {w \in PortKeywords : OccursAt(lower, w, i)}}
        blanks1 == UNION {(p + 1)..BlanksEnd(lower, p) : p \in afterWord}
        onAt == blanks1 \cup
                {p + 2 : p \in {q \in blanks1 : OccursAt(lower, <<"o", "n">>, q)
                                               \/ OccursAt(lower, <<"a", "t">>, q)}}
        blanks2 == UNION {p..BlanksEnd(lower, p) : p \in onAt}
        port == blanks2 \cup
                UNION {(p + 5)..BlanksEnd(lower, p + 4) :
                          p \in {q \in blanks2 : OccursAt(lower, <<"p", "o", "r", "t">>, q)}}
        colon == port \cup {p + 1 : p \in {q \in port : OccursAt(lower, <<":">>, q)}}
    IN  {p \in colon : DigitsEnd(lower, p) - p >= 4}

\* PORT_REGEX.captures(msg): the leftmost match, `(\d{4,5})` taking five
\* digits when the run has them; digits is group 1.
port_captures(s) ==
    LET lower == to_lowercase(s)
        starts == {i \in 1..Len(s) : PortDigitsAt(lower, i) # {}}
    IN  IF starts = {} THEN NoCaptures
        ELSE LET i == CHOOSE a \in starts : \A b \in starts : a <= b
                 d == CHOOSE j \in PortDigitsAt(lower, i) : TRUE
                 run == DigitsEnd(s, d) - d
                 e == d + (IF run >= 5 THEN 5 ELSE 4)
             IN  [matched |-> TRUE, text |-> SubSeq(s, i, e - 1),
                  digits |-> SubSeq(s, d, e - 1)]

NoEndpoint == [some |-> FALSE, url |-> <<>>, port |-> 0]
Endpoint(url, port) == [some |-> TRUE, url |-> url, port |-> port]

\* Mutant: the port phrase is looked for first.
Mut_detect_url_PhraseFirst(msg) ==
    LET u == url_captures(msg)
        p == port_captures(msg)
    IN  IF p.matched /\ parse_u16(p.digits).ok
        THEN Endpoint(<<"h", "t", "t", "p", ":", "/", "/", "l", "o", "c", "a", "l", "h", "o", "s", "t", ":">> \o Decimal(parse_u16(p.digits).value),
                      parse_u16(p.digits).value)
        ELSE IF u.matched /\ parse_u16(u.digits).ok
        THEN Endpoint(u.text, parse_u16(u.digits).value)
        ELSE NoEndpoint

\* detect_url
detect_url(msg) ==
    LET u == url_captures(msg)
        p == port_captures(msg)
    IN  IF u.matched /\ parse_u16(u.digits).ok
        THEN Endpoint(u.text, parse_u16(u.digits).value)
        ELSE IF p.matched /\ parse_u16(p.digits).ok
        THEN Endpoint(<<"h", "t", "t", "p", ":", "/", "/", "l", "o", "c", "a", "l", "h", "o", "s", "t", ":">> \o Decimal(parse_u16(p.digits).value),
                      parse_u16(p.digits).value)
        ELSE NoEndpoint

\* Pieces of the lines dev servers print.
LineFragments ==
    { <<"e", "r", "r", "o", "r">>,
      <<"[", "E", "R", "R", "]", " ">>,
      <<"W", "a", "r", "n", "i", "n", "g", " ">>,
      <<"[", "w", "r", "n", "]">>,
      <<"D", "E", "B", "U", "G", " ">>,
      <<"o", "k", " ">>,
      <<"h", "t", "t", "p", ":", "/", "/", "l", "o", "c", "a", "l", "h", "o", "s", "t", ":", "3", "0", "0", "0">>,
      <<"h", "t", "t", "p", "s", ":", "/", "/", "1", "2", "7", ".", "0", ".", "0", ".", "1", ":", "6", "5", "5", "3", "5", "/">>,
      <<"h", "t", "t", "p", ":", "/", "/", "0", ".", "0", ".", "0", ".", "0", ":", "6", "5", "5", "3", "6">>,
      <<"h", "t", "t", "p", ":", "/", "/", "e", "x", "a", "m", "p", "l", "e", ".", "c", "o", "m", ":", "8", "0", "8", "0">>,
      <<"L", "i", "s", "t", "e", "n", "i", "n", "g", " ", "o", "n", " ", "p", "o", "r", "t", " ", "8", "0", "8", "0", " ">>,
      <<"r", "e", "a", "d", "y", " ", "o", "n", " ", "p", "o", "r", "t", " ">>,
      <<"s", "e", "r", "v", "e", "r", " ", "a", "t", " ", ":">>,
      <<"9", "9", "9", "9", "9">>,
      <<"0", "0", "8", "0">>,
      <<"4", "4", "3">>,
      <<"r", "u", "n", "n", "i", "n", "g", " ", "a", "t", " ", "3", "0", "0", "0", "1", "2">> }

Lines == Texts(LineFragments, MaxFrags)

\* What a child writes to a stream up to a newline: text that decodes as
\* UTF-8, or bytes that do not.
WrittenLine(text) == [ok |-> TRUE, text |-> text]
BrokenLine == [ok |-> FALSE, text |-> <<>>]

\* The working directory child p was spawned in, the project key of its events.
CwdOf(p) == <<"project", p>>

\* LogEvent, emitted as "process-log"
LogEvent(path, level, message) ==
    [event |-> "process-log", path |-> path, level |-> level, message |-> message]

\* UrlEvent, emitted as "process-url"
UrlEvent(path, url, port) ==
    [event |-> "process-url", path |-> path, url |-> url, port |-> port]

\* Mutant: the stderr reader has the body of the stdout reader.
Mut_EventsForLine_SameOnStderr(p, st, text) ==
    <<LogEvent(CwdOf(p), detect_log_level(text), text)>>
        \o (IF detect_url(text).some
            THEN <<UrlEvent(CwdOf(p), detect_url(text).url, detect_url(text).port)>>
            ELSE <<>>)

\* The body of the readers' loops: the stdout reader emits a log event with
\* the detected level and, when detect_url finds an endpoint, a URL event
\* after it; the stderr reader emits a log event forced to "error".
EventsForLine(p, st, text) ==
    IF st = "stdout"
    THEN <<LogEvent(CwdOf(p), detect_log_level(text), text)>>
             \o (IF detect_url(text).some
                 THEN <<UrlEvent(CwdOf(p), detect_url(text).url, detect_url(text).port)>>
                 ELSE <<>>)
    ELSE <<LogEvent(CwdOf(p), "error", text)>>

\* Mutant: the reader drops the line after the one it read.
Mut_PipeAfterRead_Skip(pipe) == IF Len(pipe) > 1 THEN Tail(Tail(pipe)) ELSE <<>>

\* `reader.lines()`: the next call yields the line after this one.
PipeAfterRead(pipe) == Tail(pipe)

\* One iteration of a reader thread's loop: it takes the oldest line of its
\* pipe, which decodes, and emits the line's events.
reader_line(p, st) ==
    /\ <<p, st>> \in readers
    /\ Len(pipes[<<p, st>>]) > 0
    /\ Head(pipes[<<p, st>>]).ok
    /\ LET text == Head(pipes[<<p, st>>]).text IN
       /\ line' = text
       /\ pipes' = [pipes EXCEPT ![<<p, st>>] = PipeAfterRead(@)]
       /\ emittedBy' = [emittedBy EXCEPT ![<<p, st>>] = @ \o EventsForLine(p, st, text)]
       /\ last' = Return("line", p,
                         IF st = "stdout"
                         THEN [level |-> detect_log_level(text), endpoint |-> detect_url(text)]
                         ELSE [level |-> "error", endpoint |-> NoEndpoint],
                         [stream |-> st])
    /\ UNCHANGED <<procVars, webVars, tunnelVars, inputVars, lockVars>>

\* The lines of the children whose streams are followed line by line.
StreamLines == {<<"L", "i", "s", "t", "e", "n", "i", "n", "g", " ", "o", "n", " ", "p", "o", "r", "t", " ", "8", "0", "8", "0", " ">>, <<"W", "a", "r", "n", "i", "n", "g", " ">>}

\* What a child can have written to one stream: at most MaxLines lines, each
\* one of StreamLines or broken.
Scripts ==
    UNION {[1..n -> {WrittenLine(t) : t \in StreamLines} \cup {BrokenLine}] : n \in 0..MaxLines}

\* ------------------------------------------------------------ token lookup
\* str::replace: every non-overlapping occurrence of from, left to right.
RECURSIVE replace(_, _, _)
replace(s, from, to) ==
    IF Len(s) < Len(from) THEN s
    ELSE IF OccursAt(s, from, 1)
         THEN to \o replace(SubSeq(s, Len(from) + 1, Len(s)), from, to)
         ELSE <<s[1]>> \o replace(Tail(s), from, to)

\* pattern_matches' normalized_url
normalized_url(url) ==
    replace(replace(replace(replace(replace(url,
        <<"h", "t", "t", "p", "s", ":", "/", "/">>, <<>>), <<"h", "t", "t", "p", ":", "/", "/">>, <<>>), <<"g", "i", "t", "@">>, <<>>), <<".", "g", "i", "t">>, <<>>),
        <<":">>, <<"/">>)

\* The positions of '*' in the pattern; `pattern.split('*')` has one part more
\* than there are positions.
Stars(pattern) == {i \in 1..Len(pattern) : pattern[i] = "*"}

\* parts[0] of `pattern.split('*')`, for a pattern with a '*'
FirstPart(pattern) ==
    SubSeq(pattern, 1, (CHOOSE i \in Stars(pattern) : \A j \in Stars(pattern) : i <= j) - 1)

\* parts[1] of `pattern.split('*')`, for a pattern with one '*'
SecondPart(pattern) ==
    SubSeq(pattern, (CHOOSE i \in Stars(pattern) : TRUE) + 1, Len(pattern))

\* Mutant: a pattern without '*' matches its normalized counterpart only.
Mut_pattern_matches_ExactOnly(pattern, url) ==
    LET n == normalized_url(url) IN
    IF pattern = <<"*">> THEN TRUE
    ELSE IF ends_with(pattern, <<"/", "*">>)
    THEN starts_with(n, SubSeq(pattern, 1, Len(pattern) - 1))
    ELSE IF Stars(pattern) # {}
    THEN IF Cardinality(Stars(pattern)) + 1 = 2
         THEN starts_with(n, FirstPart(pattern)) /\ ends_with(n, SecondPart(pattern))
         ELSE contains(n, FirstPart(pattern))
    ELSE n = pattern

\* Mutant: a pattern with one '*' matches by its prefix alone.
Mut_pattern_matches_PrefixOnly(pattern, url) ==
    LET n == normalized_url(url) IN
    IF pattern = <<"*">> THEN TRUE
    ELSE IF ends_with(pattern, <<"/", "*">>)
    THEN starts_with(n, SubSeq(pattern, 1, Len(pattern) - 1))
    ELSE IF Stars(pattern) # {}
    THEN starts_with(n, FirstPart(pattern))
    ELSE n = pattern \/ contains(n, pattern)

\* pattern_matches
pattern_matches(pattern, url) ==
    LET n == normalized_url(url) IN
    IF pattern = <<"*">> THEN TRUE
    ELSE IF ends_with(pattern, <<"/", "*">>)
    THEN starts_with(n, SubSeq(pattern, 1, Len(pattern) - 1))
    ELSE IF Stars(pattern) # {}
    THEN IF Cardinality(Stars(pattern)) + 1 = 2
         THEN starts_with(n, FirstPart(pattern)) /\ ends_with(n, SecondPart(pattern))
         ELSE contains(n, FirstPart(pattern))
    ELSE n = pattern \/ contains(n, pattern)

NoToken == [some |-> FALSE, token |-> 0]
SomeToken(t) == [some |-> TRUE, token |-> t]

\* find_matching_token: the first token in list order whose pattern is not
\* "*" and matches, else the first token whose pattern is "*".
find_matching_token(remote_url, list) ==
    LET specific == {i \in DOMAIN list : /\ list[i].pattern # <<"*">>
                                         /\ pattern_matches(list[i].pattern, remote_url)}
        wildcard == {i \in DOMAIN list : list[i].pattern = <<"*">>}
        first(S) == CHOOSE i \in S : \A j \in S : i <= j
    IN  IF specific # {} THEN SomeToken(list[first(specific)].token)
        ELSE IF wildcard # {} THEN SomeToken(list[first(wildcard)].token)
        ELSE NoToken

\* What `git remote get-url origin` prints for the repositories looked at.
RemoteUrls ==
    { <<"h", "t", "t", "p", "s", ":", "/", "/", "g", "i", "t", "h", "u", "b", ".", "c", "o", "m", "/", "o", "r", "g", "/", "r", "e", "p", "o", ".", "g", "i", "t">>,
      <<"g", "i", "t", "@", "g", "i", "t", "h", "u", "b", ".", "c", "o", "m", ":", "o", "r", "g", "/", "r", "e", "p", "o">>,
      <<"h", "t", "t", "p", "s", ":", "/", "/", "g", "i", "t", "h", "u", "b", ".", "c", "o", "m", "/", "o", "r", "g", "/", "r", "e", "p", "o", "-", "t", "w", "o", ".", "g", "i", "t">>,
      <<"h", "t", "t", "p", "s", ":", "/", "/", "g", "i", "t", "h", "u", "b", ".", "c", "o", "m", "/", "o", "t", "h", "e", "r", "/", "r", "e", "p", "o">>,
      <<"h", "t", "t", "p", "s", ":", "/", "/", "w", "w", "w", ".", "g", "i", "t", "h", "u", "b", ".", "c", "o", "m", "/", "o", "r", "g", "/", "r", "e", "p", "o", ".", "g", "i", "t">>,
      <<"h", "t", "t", "p", ":", "/", "/", "g", "i", "t", "l", "a", "b", ".", "c", "o", "m", "/", "o", "r", "g", "/", "r", "e", "p", "o">>,
      <<"g", "i", "t", "h", "u", "b", ".", "c", "o", "m", "/", "o", "r", "g", "/">> }

\* The patterns of the configured tokens.
Patterns ==
    { <<"*">>,
      <<"g", "i", "t", "h", "u", "b", ".", "c", "o", "m", "/", "*">>,
      <<"g", "i", "t", "h", "u", "b", ".", "c", "o", "m", "/", "o", "r", "g", "/", "*">>,
      <<"g", "i", "t", "h", "u", "b", ".", "c", "o", "m", "/", "o", "r", "g", "/", "r", "e", "p", "o">>,
      <<"g", "i", "t", "h", "u", "b", ".", "c", "o", "m", "/", "o", "r", "g", "/">>,
      <<"g", "i", "t", "h", "u", "b", ".", "c", "o", "m", "/", "*", "-", "t", "w", "o">>,
      <<"g", "i", "t", "h", "u", "b", ".", "c", "o", "m", "/", "o", "r", "g", "/", "*", "o">>,
      <<"*", "/", "r", "e", "p", "o">>,
      <<"*", "o", "r", "g", "*">>,
      <<"g", "i", "t", "l", "a", "b", "*", "/", "*", "/", "*">> }

\* The token lists of the configuration: at most MaxTokens tokens with
\* different patterns; the secret of the i-th token is written i.
TokenLists ==
    {list \in UNION {[1..n -> [pattern : Patterns, token : 1..MaxTokens]] : n \in 0..MaxTokens} :
        /\ \A i \in DOMAIN list : list[i].token = i
        /\ \A i, j \in DOMAIN list : list[i].pattern = list[j].pattern => i = j}

\* Step 5 of git_status and of git_pull: the token for the repository's
\* remote, none when the repository has no remote URL.
find_token(command) ==
    /\ last' = Return(command, remote,
                      IF remote = <<>> THEN NoToken
                      ELSE find_matching_token(remote, tokens),
                      [matches |-> IF remote = <<>> THEN <<>>
                                   ELSE [i \in DOMAIN tokens |->
                                            pattern_matches(tokens[i].pattern, remote)]])
    /\ UNCHANGED <<procVars, webVars, tunnelVars, inputVars, streamVars, lockVars>>

\* --------------------------------------------------- webhook capture server
\* start, stop, events, clear and status hold the SERVER mutex from their first
\* statement to their return, so each is one atomic step.  A handler touches
\* shared state in one critical section of the buffer mutex (push and evict).

NoServer == [some |-> FALSE, port |-> 0, gen |-> 0]
NoTask == [state |-> "unborn", port |-> 0, signalled |-> FALSE]

\* The instances started so far are 1..Started.
Started == Cardinality({g \in Gens : tasks[g].state # "unborn"})

\* A port is taken while a listener bound to it has not been dropped; serve
\* drops its listener when it sees the shutdown signal.
PortTaken(port) == \E g \in Gens : tasks[g].state = "accepting" /\ tasks[g].port = port

\* The listener tasks that are running: accepting connections, or shut down
\* and still serving the requests in flight.
RunningTasks == {g \in Gens : tasks[g].state \in {"accepting", "draining"}}

\* The running listener tasks that have not been told to shut down.
LiveTasks == {g \in Gens : tasks[g].state = "accepting" /\ ~tasks[g].signalled}

HandlersOf(g) == {h \in handlers : h.gen = g}

\* listener.local_addr().port(): the requested port, or for port 0 a port the
\* OS picks among the free ones (here one per instance, so never taken).
BoundPort(rp, g) == IF rp = 0 THEN FixedPort + g ELSE rp

\* Mutant: the singleton check is missing.
Mut_StartRejected_Never(srv) == FALSE

\* start_webhook_server: `if server.is_some() { return Err(..) }`
StartRejected(srv) == srv.some

\* Mutant: stop reads the singleton without taking it out of the slot.
Mut_ServerAfterStop_Kept(srv) == srv

\* stop_webhook_server: `server.take()` leaves None in the slot.
ServerAfterStop(srv) == NoServer

\* Mutant: the shutdown sender is dropped without a send.
Mut_TaskAfterStop_NoSignal(task) == task

\* stop_webhook_server: `tx.send(()).await` puts the shutdown message in the
\* channel of the instance's task.
TaskAfterStop(task) == [task EXCEPT !.signalled = TRUE]

\* Mutant: the length check is missing.
Mut_PushEvent_NoEvict(events, e) == Append(events, e)

\* Mutant: the newest event is evicted.
Mut_PushEvent_EvictNewest(events, e) ==
    IF Len(events) >= MaxEvents THEN events ELSE Append(events, e)

\* handle_webhook: push, then drop the oldest event when over capacity.
PushEvent(events, e) ==
    LET pushed == Append(events, e) IN
    IF Len(pushed) > MaxEvents THEN Tail(pushed) ELSE pushed

\* The bodies requests arrive with: the number of bytes sent, whether they are
\* valid UTF-8, and whether the connection delivers them all (readOk) or
\* breaks while the body is read.
BodyLens == {0, 1, BodyLimit, BodyLimit + 1}
Requests == {r \in [len : BodyLens, utf8 : BOOLEAN, readOk : BOOLEAN] :
                r.len = 1 \/ (r.utf8 /\ r.readOk)}
PlainRequest == [len |-> 0, utf8 |-> TRUE, readOk |-> TRUE]

\* The text of an event's body: the count of request bytes it was made from,
\* and whether bytes were replaced on the way (U+FFFD for invalid UTF-8).
EmptyBody == [len |-> 0, lossy |-> FALSE]

\* handle_webhook: `to_bytes(body, 1024 * 1024).await.unwrap_or_default()`,
\* then `String::from_utf8_lossy`.  to_bytes is Err when the read fails and
\* when the body is longer than the limit; the default is the empty Bytes.
ReadBody(r) ==
    IF ~r.readOk \/ r.len > BodyLimit THEN EmptyBody
    ELSE [len |-> r.len, lossy |-> ~r.utf8]

\* The WebhookEvent a handler built; req is the request it was built from and
\* gen the instance whose listener accepted it.
EventOf(h) == [id |-> h.id, gen |-> h.gen, req |-> h.req, body |-> h.body]

\* Mutant: without a singleton the buffer of the last instance is read.
Mut_EventsOf_Stale(srv) ==
    IF srv.some THEN buffers[srv.gen]
    ELSE IF Started > 0 THEN buffers[Started] ELSE <<>>

\* get_webhook_events: a copy of the singleton's buffer, or an empty Vec.
EventsOf(srv) == IF srv.some THEN buffers[srv.gen] ELSE <<>>

\* Mutant: a new instance inherits the buffer of the one before it.
Mut_BufferAtStart_Inherited(bufs, g) == IF g > 1 THEN bufs[g - 1] ELSE <<>>

\* start_webhook_server: `Arc::new(Mutex::new(Vec::new()))`
BufferAtStart(bufs, g) == <<>>

\* Mutant: the event is emitted only when the body was read.
Mut_Emitted_OnlyWithBody(h) ==
    IF h.req.readOk THEN SetToBag({EventOf(h)}) ELSE EmptyBag

\* handle_webhook: `state.app_handle.emit("webhook-received", event)`
Emitted(h) == SetToBag({EventOf(h)})

\* handle_webhook: `timestamp: Utc::now().timestamp_millis()`, read while the
\* event is built, before the handler asks for the buffer lock.  Events are
\* built one at a time (accept_request) and the clock has ticked between two
\* builds, so the reading grows with the id.
timestamp_millis(id) == id

\* handle_webhook: `StatusCode::OK`
ResponseOf(h) == [id |-> h.id, status |-> 200]


\* start_webhook_server, success: no singleton, the bind succeeds; the serve
\* task is spawned and the singleton installed with a fresh, empty buffer.
start_webhook_server(rp) ==
    /\ ~StartRejected(server)
    /\ Started < MaxStarts
    /\ ~PortTaken(BoundPort(rp, Started + 1))
    /\ LET g == Started + 1
           port == BoundPort(rp, g) IN
       /\ tasks' = [tasks EXCEPT ![g] = [state |-> "accepting", port |-> port,
                                         signalled |-> FALSE]]
       /\ buffers' = [buffers EXCEPT ![g] = BufferAtStart(buffers, g)]
       /\ appended' = [appended EXCEPT ![g] = <<>>]
       /\ server' = [some |-> TRUE, port |-> port, gen |-> g]
    /\ last' = Return("start", rp, "Ok", [port |-> BoundPort(rp, Started + 1)])
    /\ UNCHANGED <<captured, sink, responses, handlers, nextId, accepted, procVars, tunnelVars, inputVars, streamVars, lockVars>>

\* Mutant: the singleton is installed before the bind, and stays when it fails.
Mut_start_webhook_server_bind_fails_Installs(rp) ==
    /\ ~StartRejected(server)
    /\ rp # 0
    /\ server' = [some |-> TRUE, port |-> rp, gen |-> 1]
    /\ last' = Return("start", rp, "BindError", [port |-> 0])
    /\ UNCHANGED <<captured, sink, responses, buffers, tasks, handlers, nextId, accepted, appended, procVars, tunnelVars, inputVars, streamVars, lockVars>>

\* start_webhook_server, the bind fails: the port is held by a listener of
\* this program that is not yet dropped, or by another program.
start_webhook_server_bind_fails(rp) ==
    /\ ~StartRejected(server)
    /\ rp # 0
    /\ last' = Return("start", rp, "BindError", [port |-> 0])
    /\ UNCHANGED <<captured, sink, responses, server, buffers, tasks, handlers, nextId, accepted, appended, procVars, tunnelVars, inputVars, streamVars, lockVars>>

\* start_webhook_server while the singleton exists.
start_webhook_server_rejected(rp) ==
    /\ StartRejected(server)
    /\ last' = Return("start", 0, "AlreadyRunning", [port |-> 0])
    /\ UNCHANGED <<captured, sink, responses, server, buffers, tasks, handlers, nextId, accepted, appended, procVars, tunnelVars, inputVars, streamVars, lockVars>>

\* stop_webhook_server with a singleton: take it, send the shutdown message.
stop_webhook_server ==
    /\ server.some
    /\ server' = ServerAfterStop(server)
    /\ tasks' = [tasks EXCEPT ![server.gen] = TaskAfterStop(@)]
    /\ last' = Return("stop", 0, "Ok", [prev |-> Previous])
    /\ UNCHANGED <<captured, sink, responses, buffers, handlers, nextId, accepted, appended, procVars, tunnelVars, inputVars, streamVars, lockVars>>

\* stop_webhook_server without a singleton.
stop_webhook_server_not_running ==
    /\ ~server.some
    /\ last' = Return("stop", 0, "NotRunning", [prev |-> Previous])
    /\ UNCHANGED <<captured, sink, responses, server, buffers, tasks, handlers, nextId, accepted, appended, procVars, tunnelVars, inputVars, streamVars, lockVars>>

\* get_webhook_events
get_webhook_events ==
    /\ last' = Return("events", 0, EventsOf(server), <<>>)
    /\ UNCHANGED <<webVars, procVars, tunnelVars, inputVars, streamVars, lockVars>>

\* clear_webhook_events
clear_webhook_events ==
    /\ IF server.some
       THEN /\ buffers' = [buffers EXCEPT ![server.gen] = <<>>]
            /\ appended' = [appended EXCEPT ![server.gen] = <<>>]
       ELSE UNCHANGED <<buffers, appended>>
    /\ last' = Return("clear", 0, "Ok", <<>>)
    /\ UNCHANGED <<captured, sink, responses, server, tasks, handlers, nextId, accepted, procVars, tunnelVars, inputVars, streamVars, lockVars>>

\* get_webhook_server_status
get_webhook_server_status ==
    /\ last' = Return("status", 0, IF server.some THEN server.port ELSE 0,
                      [some |-> server.some])
    /\ UNCHANGED <<webVars, procVars, tunnelVars, inputVars, streamVars, lockVars>>

\* The serve task of instance g accepts request r: handle_webhook starts,
\* reads the request and builds the event (fresh id) before it asks for the
\* buffer lock.  A task accepts until it has seen the shutdown message.
accept_request(g, r) ==
    /\ tasks[g].state = "accepting"
    /\ accepted < MaxRequests
    /\ Cardinality(handlers) < MaxInflight
    /\ handlers' = handlers \cup {[id |-> nextId, gen |-> g, pc |-> "store",
                                   req |-> r, body |-> ReadBody(r)]}
    /\ nextId' = nextId + 1
    /\ accepted' = accepted + 1
    /\ last' = NoReturn
    /\ UNCHANGED <<captured, sink, responses, server, buffers, tasks, appended, procVars, tunnelVars, inputVars, streamVars, lockVars>>

\* Mutant: the handler stores into the buffer of the current singleton.
Mut_handler_store_Shared(h) ==
    /\ h \in handlers /\ h.pc = "store"
    /\ LET g == IF server.some THEN server.gen ELSE h.gen IN
       /\ buffers' = [buffers EXCEPT ![g] = PushEvent(@, h.id)]
       /\ appended' = [appended EXCEPT ![g] = Append(@, h.id)]
    /\ captured' = captured (+) SetToBag({EventOf(h)})
    /\ handlers' = (handlers \ {h}) \cup {[h EXCEPT !.pc = "emit"]}
    /\ last' = NoReturn
    /\ UNCHANGED <<sink, responses, server, tasks, nextId, accepted, procVars, tunnelVars, inputVars, streamVars, lockVars>>

\* handle_webhook: the critical section on state.events.
handler_store(h) ==
    /\ h \in handlers /\ h.pc = "store"
    /\ buffers' = [buffers EXCEPT ![h.gen] = PushEvent(@, h.id)]
    /\ appended' = [appended EXCEPT ![h.gen] = Append(@, h.id)]
    /\ captured' = captured (+) SetToBag({EventOf(h)})
    /\ handlers' = (handlers \ {h}) \cup {[h EXCEPT !.pc = "emit"]}
    /\ last' = NoReturn
    /\ UNCHANGED <<sink, responses, server, tasks, nextId, accepted, procVars, tunnelVars, inputVars, streamVars, lockVars>>

\* handle_webhook: emit to the frontend and answer 200.
handler_respond(h) ==
    /\ h \in handlers /\ h.pc = "emit"
    /\ sink' = sink (+) Emitted(h)
    /\ responses' = responses (+) SetToBag({ResponseOf(h)})
    /\ handlers' = handlers \ {h}
    /\ last' = NoReturn
    /\ UNCHANGED <<captured, server, buffers, tasks, nextId, accepted, appended, procVars, tunnelVars, inputVars, streamVars, lockVars>>

\* Mutant: the shutdown is immediate, the requests in flight are dropped.
Mut_task_shutdown_Aborts(g) ==
    /\ tasks[g].state = "accepting" /\ tasks[g].signalled
    /\ tasks' = [tasks EXCEPT ![g].state = "draining"]
    /\ handlers' = handlers \ HandlersOf(g)
    /\ last' = NoReturn
    /\ UNCHANGED <<captured, sink, responses, server, buffers, nextId, accepted, appended, procVars, tunnelVars, inputVars, streamVars, lockVars>>

\* The serve task sees the shutdown message: it stops accepting and drops the
\* listener; the requests in flight are served to the end.
task_shutdown(g) ==
    /\ tasks[g].state = "accepting" /\ tasks[g].signalled
    /\ tasks' = [tasks EXCEPT ![g].state = "draining"]
    /\ last' = NoReturn
    /\ UNCHANGED <<captured, sink, responses, server, buffers, handlers, nextId, accepted, appended, procVars, tunnelVars, inputVars, streamVars, lockVars>>

\* The serve task ends once no request of its instance is in flight.
task_done(g) ==
    /\ tasks[g].state = "draining"
    /\ HandlersOf(g) = {}
    /\ tasks' = [tasks EXCEPT ![g].state = "done"]
    /\ last' = NoReturn
    /\ UNCHANGED <<captured, sink, responses, server, buffers, handlers, nextId, accepted, appended, procVars, tunnelVars, inputVars, streamVars, lockVars>>

InitWeb ==
    /\ server = NoServer
    /\ buffers = [g \in Gens |-> <<>>]
    /\ tasks = [g \in Gens |-> NoTask]
    /\ handlers = {}
    /\ nextId = 1
    /\ accepted = 0
    /\ appended = [g \in Gens |-> <<>>]
    /\ captured = EmptyBag
    /\ sink = EmptyBag
    /\ responses = EmptyBag

\* The requests: the listener tasks accept them, the handlers run.
NextRequests ==
    \/ \E g \in Gens : accept_request(g, PlainRequest)
    \/ \E h \in handlers : handler_store(h)
    \/ \E h \in handlers : handler_respond(h)

\* The same with every kind of request body.
NextAnyRequests ==
    \/ \E g \in Gens, r \in Requests : accept_request(g, r)
    \/ \E h \in handlers : handler_store(h)
    \/ \E h \in handlers : handler_respond(h)

\* The life of the server: the start and stop commands, the listener tasks.
NextLifecycle ==
    \/ \E rp \in RequestPorts : start_webhook_server(rp)
    \/ \E rp \in RequestPorts : start_webhook_server_bind_fails(rp)
    \/ \E rp \in RequestPorts : start_webhook_server_rejected(rp)
    \/ stop_webhook_server
    \/ stop_webhook_server_not_running
    \/ get_webhook_server_status
    \/ \E g \in Gens : task_shutdown(g)
    \/ \E g \in Gens : task_done(g)

\* The server started and stopped with every start succeeding, up to the
\* listener tasks' shutdown.
NextServe ==
    \/ \E rp \in RequestPorts : start_webhook_server(rp)
    \/ stop_webhook_server
    \/ get_webhook_server_status
    \/ \E g \in Gens : task_shutdown(g)

\* The commands that read or empty the buffer.
NextBuffer ==
    \/ get_webhook_events
    \/ clear_webhook_events

NextWeb ==
    \/ NextRequests
    \/ NextLifecycle
    \/ NextBuffer

\* A server started once and stopped under traffic, its listener task running
\* to its end.
NextGraceful ==
    \/ \E rp \in RequestPorts : Started = 0 /\ start_webhook_server(rp)
    \/ stop_webhook_server
    \/ \E g \in Gens : accept_request(g, PlainRequest)
    \/ \E h \in handlers : handler_store(h)
    \/ \E h \in handlers : handler_respond(h)
    \/ \E g \in Gens : task_shutdown(g)
    \/ \E g \in Gens : task_done(g)

\* The runtime polls every task that can run: a serve task whose shutdown
\* future is ready, a handler that has the buffer lock or an event to emit.
\* Starts, stops and requests are under no obligation.
FairGraceful ==
    /\ \A g \in Gens : WF_vars(task_shutdown(g))
    /\ \A g \in Gens : WF_vars(task_done(g))
    /\ WF_vars(\E h \in handlers : handler_store(h))
    /\ WF_vars(\E h \in handlers : handler_respond(h))

\* ------------------------------------------ webhook commands, lock by lock
\* The commands and the handlers once more, with their awaits written out.  A
\* command waits for the SERVER mutex and holds it to its return; start awaits
\* the bind while holding it; events() and clear() wait for the events mutex
\* of the singleton while holding it; stop awaits the send of the shutdown
\* message.  A handler waits for the events mutex of its own instance only.

\* The command invocations that can be in flight together.
Callers == {1, 2}

Commands == {"start", "stop", "events", "clear", "status"}

\* since: for a start, the number of instances started when it was invoked.
NoCall == [op |-> "none", pc |-> "idle", since |-> 0]

Unlocked == [by |-> "none", id |-> 0]
LockedByCall(c) == [by |-> "call", id |-> c]
LockedByHandler(h) == [by |-> "handler", id |-> h.id]

\* mpsc::channel::<()>(1): a send waits while the one slot holds a message
\* the serve task has not received.
ChannelFull(task) == task.state = "accepting" /\ task.signalled

\* The command of caller c returns: the SERVER guard is dropped.
Returned(c) ==
    /\ calls' = [calls EXCEPT ![c] = NoCall]
    /\ serverLock' = 0

\* The frontend invokes a command; its first statement asks for SERVER.  (A
\* start is invoked only while an instance is left for it to start.)
invoke(c, op) ==
    /\ calls[c] = NoCall
    /\ op = "start" =>
           Started + Cardinality({d \in Callers : calls[d].op = "start"}) < MaxStarts
    /\ calls' = [calls EXCEPT ![c] = [op |-> op, pc |-> "lockServer",
                                      since |-> IF op = "start" THEN Started ELSE 0]]
    /\ last' = NoReturn
    /\ UNCHANGED <<serverLock, eventsLock, webVars, procVars, tunnelVars, inputVars, streamVars>>

\* Mutant: the lock is handed out while another call holds it.
Mut_lock_server_NoWait(c) ==
    /\ calls[c].pc = "lockServer"
    /\ serverLock' = c
    /\ calls' = [calls EXCEPT ![c].pc = "locked"]
    /\ last' = NoReturn
    /\ UNCHANGED <<eventsLock, webVars, procVars, tunnelVars, inputVars, streamVars>>

\* `SERVER.lock().await` returns the guard.
lock_server(c) ==
    /\ calls[c].pc = "lockServer"
    /\ serverLock = 0
    /\ serverLock' = c
    /\ calls' = [calls EXCEPT ![c].pc = "locked"]
    /\ last' = NoReturn
    /\ UNCHANGED <<eventsLock, webVars, procVars, tunnelVars, inputVars, streamVars>>

\* start_webhook_server: no singleton, the call goes on to bind.
start_checks(c) ==
    /\ calls[c].op = "start" /\ calls[c].pc = "locked"
    /\ ~StartRejected(server)
    /\ calls' = [calls EXCEPT ![c].pc = "bind"]
    /\ last' = NoReturn
    /\ UNCHANGED <<serverLock, eventsLock, webVars, procVars, tunnelVars, inputVars, streamVars>>

\* start_webhook_server: a singleton exists.
start_rejected_locked(c) ==
    /\ calls[c].op = "start" /\ calls[c].pc = "locked"
    /\ StartRejected(server)
    /\ Returned(c)
    /\ last' = Return("start", 0, "AlreadyRunning", [port |-> 0, since |-> calls[c].since])
    /\ UNCHANGED <<eventsLock, webVars, procVars, tunnelVars, inputVars, streamVars>>

\* start_webhook_server: the bind succeeded; spawn the serve task, install
\* the singleton, return.
start_installs(c, rp) ==
    /\ calls[c].op = "start" /\ calls[c].pc = "bind"
    /\ ~PortTaken(BoundPort(rp, Started + 1))
    /\ LET g == Started + 1
           port == BoundPort(rp, g) IN
       /\ tasks' = [tasks EXCEPT ![g] = [state |-> "accepting", port |-> port,
                                         signalled |-> FALSE]]
       /\ buffers' = [buffers EXCEPT ![g] = BufferAtStart(buffers, g)]
       /\ appended' = [appended EXCEPT ![g] = <<>>]
       /\ eventsLock' = [eventsLock EXCEPT ![g] = Unlocked]
       /\ server' = [some |-> TRUE, port |-> port, gen |-> g]
    /\ Returned(c)
    /\ last' = Return("start", rp, "Ok",
                      [port |-> BoundPort(rp, Started + 1), since |-> calls[c].since])
    /\ UNCHANGED <<captured, sink, responses, handlers, nextId, accepted, procVars, tunnelVars, inputVars, streamVars>>

\* start_webhook_server: the bind failed.
start_bind_fails_locked(c, rp) ==
    /\ calls[c].op = "start" /\ calls[c].pc = "bind"
    /\ rp # 0
    /\ Returned(c)
    /\ last' = Return("start", rp, "BindError", [port |-> 0, since |-> calls[c].since])
    /\ UNCHANGED <<eventsLock, webVars, procVars, tunnelVars, inputVars, streamVars>>

\* stop_webhook_server with a singleton: take it, send, return.
stop_locked(c) ==
    /\ calls[c].op = "stop" /\ calls[c].pc = "locked"
    /\ server.some
    /\ ~ChannelFull(tasks[server.gen])
    /\ server' = ServerAfterStop(server)
    /\ tasks' = [tasks EXCEPT ![server.gen] = TaskAfterStop(@)]
    /\ Returned(c)
    /\ last' = Return("stop", 0, "Ok", <<>>)
    /\ UNCHANGED <<eventsLock, captured, sink, responses, buffers, handlers, nextId, accepted, appended, procVars, tunnelVars, inputVars, streamVars>>

\* stop_webhook_server without a singleton.
stop_not_running_locked(c) ==
    /\ calls[c].op = "stop" /\ calls[c].pc = "locked"
    /\ ~server.some
    /\ Returned(c)
    /\ last' = Return("stop", 0, "NotRunning", <<>>)
    /\ UNCHANGED <<eventsLock, webVars, procVars, tunnelVars, inputVars, streamVars>>

\* get_webhook_server_status
status_locked(c) ==
    /\ calls[c].op = "status" /\ calls[c].pc = "locked"
    /\ Returned(c)
    /\ last' = Return("status", 0, IF server.some THEN server.port ELSE 0,
                      [some |-> server.some])
    /\ UNCHANGED <<eventsLock, webVars, procVars, tunnelVars, inputVars, streamVars>>

\* get_webhook_events / clear_webhook_events without a singleton.
buffer_command_no_server(c) ==
    /\ calls[c].op \in {"events", "clear"} /\ calls[c].pc = "locked"
    /\ ~server.some
    /\ Returned(c)
    /\ last' = Return(calls[c].op, 0, IF calls[c].op = "events" THEN <<>> ELSE "Ok", <<>>)
    /\ UNCHANGED <<eventsLock, webVars, procVars, tunnelVars, inputVars, streamVars>>

\* get_webhook_events / clear_webhook_events: `s.events.lock().await` returns
\* the guard of the singleton's buffer.
lock_events(c) ==
    /\ calls[c].op \in {"events", "clear"} /\ calls[c].pc = "locked"
    /\ server.some
    /\ eventsLock[server.gen] = Unlocked
    /\ eventsLock' = [eventsLock EXCEPT ![server.gen] = LockedByCall(c)]
    /\ calls' = [calls EXCEPT ![c].pc = "lockedEvents"]
    /\ last' = NoReturn
    /\ UNCHANGED <<serverLock, webVars, procVars, tunnelVars, inputVars, streamVars>>

\* get_webhook_events: clone the buffer, drop both guards.
events_locked(c) ==
    /\ calls[c].op = "events" /\ calls[c].pc = "lockedEvents"
    /\ eventsLock' = [eventsLock EXCEPT ![server.gen] = Unlocked]
    /\ Returned(c)
    /\ last' = Return("events", 0, EventsOf(server), <<>>)
    /\ UNCHANGED <<webVars, procVars, tunnelVars, inputVars, streamVars>>

\* clear_webhook_events: empty the buffer, drop both guards.
clear_locked(c) ==
    /\ calls[c].op = "clear" /\ calls[c].pc = "lockedEvents"
    /\ buffers' = [buffers EXCEPT ![server.gen] = <<>>]
    /\ appended' = [appended EXCEPT ![server.gen] = <<>>]
    /\ eventsLock' = [eventsLock EXCEPT ![server.gen] = Unlocked]
    /\ Returned(c)
    /\ last' = Return("clear", 0, "Ok", <<>>)
    /\ UNCHANGED <<captured, sink, responses, server, tasks, handlers, nextId, accepted, procVars, tunnelVars, inputVars, streamVars>>

\* handle_webhook: `state.events.lock().await` returns the guard.
handler_locks(h) ==
    /\ h \in handlers /\ h.pc = "store"
    /\ eventsLock[h.gen] = Unlocked
    /\ eventsLock' = [eventsLock EXCEPT ![h.gen] = LockedByHandler(h)]
    /\ handlers' = (handlers \ {h}) \cup {[h EXCEPT !.pc = "locked"]}
    /\ last' = NoReturn
    /\ UNCHANGED <<serverLock, calls, captured, sink, responses, server, buffers, tasks, nextId, accepted, appended, procVars, tunnelVars, inputVars, streamVars>>

\* Mutant: the handler asks for SERVER while it holds the buffer.
Mut_handler_pushes_NeedsServer(h) ==
    /\ h \in handlers /\ h.pc = "locked"
    /\ serverLock = 0
    /\ buffers' = [buffers EXCEPT ![h.gen] = PushEvent(@, h.id)]
    /\ appended' = [appended EXCEPT ![h.gen] = Append(@, h.id)]
    /\ captured' = captured (+) SetToBag({EventOf(h)})
    /\ eventsLock' = [eventsLock EXCEPT ![h.gen] = Unlocked]
    /\ handlers' = (handlers \ {h}) \cup {[h EXCEPT !.pc = "emit"]}
    /\ last' = NoReturn
    /\ UNCHANGED <<serverLock, calls, sink, responses, server, tasks, nextId, accepted, procVars, tunnelVars, inputVars, streamVars>>

\* handle_webhook: push, evict, drop the guard.
handler_pushes(h) ==
    /\ h \in handlers /\ h.pc = "locked"
    /\ buffers' = [buffers EXCEPT ![h.gen] = PushEvent(@, h.id)]
    /\ appended' = [appended EXCEPT ![h.gen] = Append(@, h.id)]
    /\ captured' = captured (+) SetToBag({EventOf(h)})
    /\ eventsLock' = [eventsLock EXCEPT ![h.gen] = Unlocked]
    /\ handlers' = (handlers \ {h}) \cup {[h EXCEPT !.pc = "emit"]}
    /\ last' = NoReturn
    /\ UNCHANGED <<serverLock, calls, sink, responses, server, tasks, nextId, accepted, procVars, tunnelVars, inputVars, streamVars>>

InitLocks ==
    /\ serverLock = 0
    /\ eventsLock = [g \in Gens |-> Unlocked]
    /\ calls = [c \in Callers |-> NoCall]

\* Starts, stops and status queries made concurrently.
NextStarts ==
    \/ \E c \in Callers, op \in {"start", "stop", "status"} : invoke(c, op)
    \/ \E c \in Callers : lock_server(c)
    \/ \E c \in Callers : start_checks(c)
    \/ \E c \in Callers : start_rejected_locked(c)
    \/ \E c \in Callers, rp \in RequestPorts : start_installs(c, rp)
    \/ \E c \in Callers, rp \in RequestPorts : start_bind_fails_locked(c, rp)
    \/ \E c \in Callers : stop_locked(c)
    \/ \E c \in Callers : stop_not_running_locked(c)
    \/ \E c \in Callers : status_locked(c)
    \/ \E g \in Gens : task_shutdown(g)

\* Every command made concurrently while a request is handled.  A start is
\* invoked while nothing has been started yet; the one invoked beside it
\* can still start a second instance after a stop.
NextLocks ==
    \/ \E c \in Callers, op \in Commands : (op = "start" => Started = 0) /\ invoke(c, op)
    \/ \E c \in Callers : lock_server(c)
    \/ \E c \in Callers : start_checks(c)
    \/ \E c \in Callers : start_rejected_locked(c)
    \/ \E c \in Callers, rp \in RequestPorts : start_installs(c, rp)
    \/ \E c \in Callers, rp \in RequestPorts : start_bind_fails_locked(c, rp)
    \/ \E c \in Callers : stop_locked(c)
    \/ \E c \in Callers : stop_not_running_locked(c)
    \/ \E c \in Callers : status_locked(c)
    \/ \E c \in Callers : buffer_command_no_server(c)
    \/ \E c \in Callers : lock_events(c)
    \/ \E c \in Callers : events_locked(c)
    \/ \E c \in Callers : clear_locked(c)
    \/ \E g \in Gens : nextId = 1 /\ accept_request(g, PlainRequest)
    \/ \E h \in handlers : handler_locks(h)
    \/ \E h \in handlers : handler_pushes(h)
    \/ \E h \in handlers : handler_respond(h)
    \/ \E g \in Gens : task_shutdown(g)

\* A step of caller c that waits for nothing: what the call does between two
\* awaits of a mutex.
RunsOn(c) ==
    \/ start_checks(c)
    \/ start_rejected_locked(c)
    \/ \E rp \in RequestPorts : start_installs(c, rp)
    \/ \E rp \in RequestPorts : start_bind_fails_locked(c, rp)
    \/ stop_locked(c)
    \/ stop_not_running_locked(c)
    \/ status_locked(c)
    \/ buffer_command_no_server(c)
    \/ events_locked(c)
    \/ clear_locked(c)

\* The runtime polls every task that can run, and a tokio Mutex hands the
\* lock to its waiters in the order they asked (strong fairness on the
\* acquisitions).  Invocations, requests and the serve task's shutdown are
\* under no obligation.
FairLocks ==
    /\ \A c \in Callers : WF_vars(RunsOn(c))
    /\ \A c \in Callers : SF_vars(lock_server(c) \/ lock_events(c))
    /\ SF_vars(\E h \in handlers : handler_locks(h))
    /\ WF_vars(\E h \in handlers : handler_pushes(h) \/ handler_respond(h))

\* ------------------------------------------------------------ tunnel manager
\* start_ngrok and stop_ngrok hold the NGROK_PROCESS mutex from their first
\* statement to their return, so each is one atomic step; get_ngrok_status
\* reads the slot under the mutex and queries the local endpoint after it.

NoChild == 0

\* What Child::kill and Child::wait can return.
IoResults == {"Ok", "Err"}

\* The ways stop_ngrok's kill-then-wait can go.
StopOutcomes == {"Ok", "KillErr", "WaitErr"}

\* The tunnel subprocesses launched so far are 1..Launched.
Launched == Cardinality({c \in Children : children[c] # "unborn"})

AliveChildren == {c \in Children : children[c] = "alive"}

\* The last tunnel command, when the step before was its return.
TunnelPrevious ==
    IF last.op \in {"tunnelStart", "tunnelStop"}
    THEN <<last.op, last.res>> ELSE <<"none", "none">>

\* Child::kill: SIGKILL when it returns Ok, nothing when it returns Err.
ChildAfterKill(state, k) == IF k = "Ok" THEN "exited" ELSE state

\* Mutant: stop looks at the slot without taking the child out of it.
Mut_SlotAfterStop_Kept(slot, outcome) == slot

\* stop_ngrok: `ngrok.take()` comes first, so the slot is None however the
\* kill and the wait go.
SlotAfterStop(slot, outcome) == NoChild

\* stop_ngrok: the first `?` that fails returns the error.
StopResult(outcome) == IF outcome = "Ok" THEN "Ok" ELSE "TerminationError"

\* Mutant: the endpoint is queried whatever the slot holds.
Mut_StatusQueries_Always(slot) == TRUE

\* get_ngrok_status: `if ngrok.is_none() { return Ok(None); }`
StatusQueries(slot) == slot # NoChild

\* What a GET of http://localhost:4040/api/tunnels can give: whether the
\* request got a response, whether its status is 2xx, whether its body is
\* JSON, what "tunnels" holds and what the first tunnel's "public_url" holds.
Responses == [sent : BOOLEAN, success : BOOLEAN, json : BOOLEAN,
              tunnels : {"missing", "empty", "some"},
              url : {"missing", "empty", "url"}]
NoResponse == [sent |-> FALSE, success |-> FALSE, json |-> FALSE,
               tunnels |-> "missing", url |-> "missing"]

\* Mutant: a non-success status is reported as an error.
Mut_NgrokStatus_StatusErr(resp) ==
    IF ~resp.sent THEN "Err"
    ELSE IF ~resp.success THEN "Err"
    ELSE IF ~resp.json THEN "Err"
    ELSE IF resp.tunnels = "some" /\ resp.url = "url" THEN "Some"
    ELSE "None"

\* get_ngrok_status after the slot check: the `?` on send, the status check,
\* the `?` on json, then the first tunnel with a non-empty public_url.
NgrokStatus(resp) ==
    IF ~resp.sent THEN "Err"
    ELSE IF ~resp.success THEN "None"
    ELSE IF ~resp.json THEN "Err"
    ELSE IF resp.tunnels = "some" /\ resp.url = "url" THEN "Some"
    ELSE "None"

\* The children after start_ngrok dealt with the tracked one: kill, result
\* ignored, then wait, result ignored.
ChildrenAfterReplace(old, k) ==
    IF old = NoChild THEN children
    ELSE [children EXCEPT ![old] = ChildAfterKill(@, k)]

\* start_ngrok can get past the wait: a wait that returns Ok has seen the
\* child exit.  Without a tracked child neither call is made.
ReplaceReturns(old, k, w) ==
    IF old = NoChild THEN k = "Ok" /\ w = "Ok"
    ELSE w = "Ok" => ChildrenAfterReplace(old, k)[old] = "exited"

\* start_ngrok, the spawn succeeds: the new child is tracked.
start_ngrok(k, w) ==
    /\ Launched < MaxTunnels
    /\ ReplaceReturns(ngrok, k, w)
    /\ children' = [ChildrenAfterReplace(ngrok, k) EXCEPT ![Launched + 1] = "alive"]
    /\ ngrok' = Launched + 1
    /\ last' = Return("tunnelStart", 0, "Ok",
                      [old |-> ngrok, kill |-> k, wait |-> w, prev |-> TunnelPrevious])
    /\ UNCHANGED <<procVars, webVars, inputVars, streamVars, lockVars>>

\* start_ngrok, the spawn fails: the old child was taken out of the slot.
start_ngrok_spawn_fails(k, w) ==
    /\ ReplaceReturns(ngrok, k, w)
    /\ children' = ChildrenAfterReplace(ngrok, k)
    /\ ngrok' = NoChild
    /\ last' = Return("tunnelStart", 0, "LaunchError",
                      [old |-> ngrok, kill |-> k, wait |-> w, prev |-> TunnelPrevious])
    /\ UNCHANGED <<procVars, webVars, inputVars, streamVars, lockVars>>

\* stop_ngrok with a tracked child.
stop_ngrok(outcome) ==
    /\ ngrok # NoChild
    /\ children' = [children EXCEPT ![ngrok] =
                       ChildAfterKill(@, IF outcome = "KillErr" THEN "Err" ELSE "Ok")]
    /\ ngrok' = SlotAfterStop(ngrok, outcome)
    /\ last' = Return("tunnelStop", ngrok, StopResult(outcome), [prev |-> TunnelPrevious])
    /\ UNCHANGED <<procVars, webVars, inputVars, streamVars, lockVars>>

\* stop_ngrok with an empty slot.
stop_ngrok_not_running ==
    /\ ngrok = NoChild
    /\ last' = Return("tunnelStop", NoChild, "NotRunning", [prev |-> TunnelPrevious])
    /\ UNCHANGED <<procVars, webVars, tunnelVars, inputVars, streamVars, lockVars>>

\* get_ngrok_status with an empty slot: no request is made.
get_ngrok_status_untracked ==
    /\ ~StatusQueries(ngrok)
    /\ last' = Return("tunnelStatus", 0, "None",
                      [queried |-> FALSE, resp |-> NoResponse, prev |-> TunnelPrevious])
    /\ UNCHANGED <<procVars, webVars, tunnelVars, inputVars, streamVars, lockVars>>

\* get_ngrok_status with a tracked child: the endpoint answers resp.
get_ngrok_status(resp) ==
    /\ StatusQueries(ngrok)
    /\ last' = Return("tunnelStatus", 0, NgrokStatus(resp),
                      [queried |-> TRUE, resp |-> resp, prev |-> TunnelPrevious])
    /\ UNCHANGED <<procVars, webVars, tunnelVars, inputVars, streamVars, lockVars>>

\* A tunnel subprocess ends by itself; the slot keeps its handle.
tunnel_exit(c) ==
    /\ children[c] = "alive"
    /\ children' = [children EXCEPT ![c] = "exited"]
    /\ last' = NoReturn
    /\ UNCHANGED <<ngrok, procVars, webVars, inputVars, streamVars, lockVars>>

InitTunnel ==
    /\ ngrok = NoChild
    /\ children = [c \in Children |-> "unborn"]

NextTunnel ==
    \/ \E k \in IoResults, w \in IoResults : start_ngrok(k, w)
    \/ \E k \in IoResults, w \in IoResults : start_ngrok_spawn_fails(k, w)
    \/ \E outcome \in StopOutcomes : stop_ngrok(outcome)
    \/ stop_ngrok_not_running
    \/ get_ngrok_status_untracked
    \/ \E resp \in Responses : get_ngrok_status(resp)
    \/ \E c \in Children : tunnel_exit(c)

\* No child has written anything and no reader has emitted anything.
InitStreams ==
    /\ pipes = [r \in Pids \X Streams |-> <<>>]
    /\ emittedBy = [r \in Pids \X Streams |-> <<>>]
    /\ line = <<>>

InitProc ==
    /\ procs = [p \in Pids |-> "free"]
    /\ registry = {}
    /\ killCall = NoKill
    /\ killAllCall = NoKillAll
    /\ readers = {}
    /\ InitStreams

NextProc ==
    \/ \E p \in Pids : spawn_process(p)
    \/ spawn_process_fails
    \/ \E p \in Pids : kill_process_signal(p)
    \/ kill_process_finish
    \/ kill_all_snapshot
    \/ \E p \in Pids : kill_all_step(p)
    \/ kill_all_clear
    \/ \E p \in Pids : process_exit(p)
    \/ \E p \in Pids : foreign_process(p)

\* Nothing is printed and no repository is looked at.
InitInputs ==
    /\ remote = <<>>
    /\ tokens = <<>>

Init ==
    /\ InitProc
    /\ InitWeb
    /\ InitLocks
    /\ InitTunnel
    /\ InitInputs
    /\ last = NoReturn

\* Children are spawned and end, their pids may be reused, and the
\* application is quit from the tray.
NextQuit ==
    \/ \E p \in Pids : spawn_process(p)
    \/ \E p \in Pids : process_exit(p)
    \/ \E p \in Pids : foreign_process(p)
    \/ tray_quit

\* The commands of the supervisor with its probes and kill-all in its
\* synchronous form, next to commands of the capture server and of the tunnel
\* manager.
NextRegistry ==
    \/ \E p \in Pids : spawn_process(p)
    \/ spawn_process_fails
    \/ \E p \in Pids : kill_process_signal(p)
    \/ kill_process_finish
    \/ tray_quit
    \/ \E p \in Pids : process_exit(p)
    \/ \E p \in Pids : get_process_status(p)
    \/ get_running_count
    \/ \E rp \in RequestPorts : start_webhook_server(rp)
    \/ get_webhook_server_status
    \/ \E k \in IoResults, w \in IoResults : start_ngrok_spawn_fails(k, w)
    \/ stop_ngrok_not_running
    \/ get_ngrok_status_untracked

\* The token lookups of the git commands.
NextGit == \E command \in {"git_status", "git_pull"} : find_token(command)

\* The reader threads at work on the lines of the children.
NextLines ==
    \E p \in Pids, st \in Streams : reader_line(p, st)

\* The reader threads that stop while their child runs.
NextReaders ==
    \E p \in Pids, st \in Streams : reader_stops(p, st)

\* Spawning, the children's exits and the reader threads.
NextSpawn ==
    \/ \E p \in Pids : spawn_process(p)
    \/ spawn_process_fails
    \/ \E p \in Pids : process_exit(p)
    \/ \E p \in Pids : foreign_process(p)
    \/ NextReaders

Next ==
    \/ NextProc
    \/ NextQuit
    \/ NextRegistry
    \/ NextGit
    \/ NextReaders
    \/ NextLines
    \/ NextWeb
    \/ NextTunnel

\* The whole program.
Spec == Init /\ [][Next]_vars

\* The process supervisor alone; the supervisors share no state.
SpecProc == Init /\ [][NextProc]_vars

\* The registry under every kind of command.
SpecRegistry == Init /\ [][NextRegistry]_vars

\* Spawns, exits and the tray's quit.
SpecQuit == Init /\ [][NextQuit]_vars

\* A repository with or without a remote, and a configured token list.
InitGit ==
    /\ InitProc
    /\ InitLocks
    /\ InitWeb
    /\ InitTunnel
    /\ remote \in RemoteUrls \cup {<<>>}
    /\ tokens \in TokenLists
    /\ last = NoReturn

SpecGit == InitGit /\ [][NextGit]_vars

\* Child 1 was spawned and is running.
InitChild ==
    /\ procs = [p \in Pids |-> IF p = 1 THEN "group" ELSE "free"]
    /\ registry = InsertPid({}, 1)
    /\ readers = ReadersOf(1)
    /\ killCall = NoKill
    /\ killAllCall = NoKillAll
    /\ InitWeb
    /\ InitLocks
    /\ InitTunnel
    /\ InitInputs
    /\ emittedBy = [r \in Pids \X Streams |-> <<>>]
    /\ line = <<>>
    /\ last = Return("spawn", 1, "Ok", <<>>)

\* Child 1 has written some lines to its stdout and to its stderr.
InitStream ==
    /\ InitChild
    /\ \E out \in Scripts, err \in Scripts :
         pipes = [r \in Pids \X Streams |->
                     IF r = <<1, "stdout">> THEN out
                     ELSE IF r = <<1, "stderr">> THEN err ELSE <<>>]

\* The readers of child 1 at work on what it wrote, to the end of each stream.
NextStream ==
    \/ \E p \in Pids, st \in Streams : reader_line(p, st)
    \/ \E p \in Pids, st \in Streams : reader_stops(p, st)

SpecStream == InitStream /\ [][NextStream]_vars

\* Child 1 was spawned and has written one of the lines to one of its streams.
InitLines ==
    /\ InitChild
    /\ \E text \in Lines, st \in Streams :
         pipes = [r \in Pids \X Streams |->
                     IF r = <<1, st>> THEN <<WrittenLine(text)>> ELSE <<>>]

\* The log lines of a spawned child.
SpecLines == InitLines /\ [][NextLines]_vars

\* Spawning alone, with the reader threads.
SpecSpawn == Init /\ [][NextSpawn]_vars

\* The webhook capture server alone.
SpecWeb == Init /\ [][NextWeb]_vars

\* The buffers over the server's life: start, stop, traffic, events() and
\* clear().
SpecEvents == Init /\ [][NextServe \/ NextRequests \/ NextBuffer]_vars

\* A server started once, taking requests with every kind of body.
NextCapture ==
    \/ \E rp \in RequestPorts : start_webhook_server(rp)
    \/ NextAnyRequests

SpecCapture == Init /\ [][NextCapture]_vars

\* The tunnel manager alone.
SpecTunnel == Init /\ [][NextTunnel]_vars

\* Concurrent starts, stops and status queries, lock by lock.
SpecStarts == Init /\ [][NextStarts]_vars

\* Every webhook command and the handlers, lock by lock, fairly scheduled.
SpecLocks == Init /\ [][NextLocks]_vars /\ FairLocks

\* Stopping under traffic, fairly scheduled.
SpecGraceful == Init /\ [][NextGraceful]_vars /\ FairGraceful

\* The server's life under traffic: start, stop, the listener tasks and the
\* request handlers.
SpecLifecycle == Init /\ [][NextLifecycle \/ NextRequests]_vars

\* The first n natural numbers in order: the ids of n requests handled one
\* after the other.
FirstIds(n) == [i \in 1..n |-> i]

\* The last min(n, Len(s)) elements of s.
LastN(s, n) ==
    IF Len(s) <= n THEN s ELSE SubSeq(s, Len(s) - n + 1, Len(s))

\* Request counts a server has handled before the behaviour starts.
LoadedCounts == {0, MaxEvents - 1, MaxEvents, MaxEvents + 49}

\* The event of the i-th request handled before the behaviour starts.
LoadedEvent(i) ==
    [id |-> i, gen |-> 1, req |-> PlainRequest, body |-> ReadBody(PlainRequest)]

\* A server that was started once and has since handled n0 requests one after
\* the other, none in flight.
InitLoaded ==
    /\ InitProc
    /\ InitLocks
    /\ InitTunnel
    /\ InitInputs
    /\ \E n0 \in LoadedCounts :
         /\ server = [some |-> TRUE, port |-> FixedPort, gen |-> 1]
         /\ tasks = [g \in Gens |-> IF g = 1
                        THEN [state |-> "accepting", port |-> FixedPort, signalled |-> FALSE]
                        ELSE NoTask]
         /\ appended = [g \in Gens |-> IF g = 1 THEN FirstIds(n0) ELSE <<>>]
         /\ buffers = [g \in Gens |-> IF g = 1 THEN LastN(FirstIds(n0), MaxEvents) ELSE <<>>]
         /\ nextId = n0 + 1
         /\ captured = SetToBag({LoadedEvent(i) : i \in 1..n0})
         /\ sink = SetToBag({LoadedEvent(i) : i \in 1..n0})
         /\ responses = SetToBag({[id |-> i, status |-> 200] : i \in 1..n0})
    /\ handlers = {}
    /\ accepted = 0
    /\ last = NoReturn

\* The buffer of a running, loaded server under traffic, events() and clear().
SpecLoaded == InitLoaded /\ [][NextRequests \/ NextBuffer]_vars

\* ------------------------------------------------------------------ claims

\* C1: a pid returned by spawn is in the registry right after spawn returns;
\* right after a kill(pid) that returned true, and right after killAll
\* returns, the pid is not in the registry.
C1_SpawnedTrackedKilledUntracked ==
    /\ (last.op = "spawn" /\ last.res = "Ok") => last.arg \in registry
    /\ (last.op = "kill" /\ last.res = "true") => last.arg \notin registry
    /\ (last.op = "killAll") => \A p \in Pids : p \notin registry

\* spawn returns while a killAll that did not see the pid is in flight
C1_Witness ==
    /\ last.op = "spawn" /\ last.res = "Ok"
    /\ killAllCall.active /\ last.arg \notin killAllCall.snapshot
    /\ last.arg \in registry

\* C2: kill(pid) changes the registry only when termination reported success;
\* a kill that reports false or an error leaves the registry as it was.
C2_FailedKillKeepsRegistry ==
    [][ /\ (killCall'.active /\ ~killCall.active) => registry' = registry
        /\ (last'.op = "kill" /\ last'.res # "true") => registry' = registry
        /\ (last'.op = "kill" /\ registry' # registry) =>
               (last'.res = "true" /\ registry' = registry \ {last'.arg}) ]_vars

\* a failed kill of a tracked pid has returned and the pid is still tracked
C2_Witness ==
    /\ last.op = "kill" /\ last.res \in {"false", "Err"}
    /\ last.arg \in registry

C4_KillAllClearsAndCounts ==
    last.op = "killAll" =>
        /\ registry = {}
        /\ last.info.attempted = last.arg
        /\ last.info.succeeded \subseteq last.arg
        /\ last.res = Cardinality(last.info.succeeded)

\* two pids in the snapshot, one kill failed, the registry is empty anyway
C4_Witness ==
    /\ last.op = "killAll"
    /\ Cardinality(last.arg) = 2 /\ last.res = 1
    /\ registry = {}

\* C5: killAll on an empty registry returns 0, attempts no kill and leaves
\* the registry empty.
C5_KillAllOnEmptyRegistry ==
    (last.op = "killAll" /\ last.arg = {}) =>
        /\ last.res = 0
        /\ last.info.attempted = {}
        /\ registry = {}

\* killAll found nothing to kill although a process is alive
C5_Witness ==
    /\ last.op = "killAll" /\ last.arg = {} /\ last.res = 0
    /\ \E p \in Pids : procs[p] # "free"

\* C6: the webhook buffer, as events() shows it, never holds more than 100
\* events, whatever the number of handlers running.
C6_BufferAtMostMaxEvents ==
    /\ \A g \in Gens : Len(buffers[g]) <= MaxEvents
    /\ Len(EventsOf(server)) <= MaxEvents
    /\ last.op = "events" => Len(last.res) <= MaxEvents

\* events() returns a full buffer after more than 100 appends, with another
\* handler about to push
C6_Witness ==
    /\ last.op = "events" /\ Len(last.res) = MaxEvents
    /\ Len(appended[1]) > MaxEvents
    /\ \E h \in handlers : h.pc = "store"

\* C7: eviction is FIFO: after n appends with no clear or stop in between,
\* events() returns the last min(n, 100) appended events in append order.
C7_FifoEviction ==
    /\ server.some => buffers[server.gen] = LastN(appended[server.gen], MaxEvents)
    /\ (last.op = "events" /\ server.some) =>
           /\ Len(last.res) = IF Len(appended[server.gen]) < MaxEvents
                              THEN Len(appended[server.gen]) ELSE MaxEvents
           /\ \A i \in 1..Len(last.res) :
                  last.res[i] =
                      appended[server.gen][Len(appended[server.gen]) - Len(last.res) + i]

\* events() after 150 appends: 100 events, the oldest being the 51st appended
C7_Witness ==
    /\ last.op = "events" /\ server.some
    /\ Len(appended[server.gen]) = MaxEvents + 50
    /\ Len(last.res) = MaxEvents
    /\ last.res[1] = appended[server.gen][51]

\* C8: start while a singleton exists fails with AlreadyRunning and leaves the
\* singleton (port, shutdown channel, buffer), the tasks and the buffers as
\* they were.
C8_StartWhileRunningRejected ==
    [][ (last'.op = "start" /\ server.some) =>
            /\ last'.res = "AlreadyRunning"
            /\ server' = server
            /\ tasks' = tasks
            /\ buffers' = buffers ]_vars

\* a start was rejected while the running server holds captured events
C8_Witness ==
    /\ last.op = "start" /\ last.res = "AlreadyRunning"
    /\ server.some /\ ~tasks[server.gen].signalled
    /\ buffers[server.gen] # <<>>

\* C9: stop without a singleton fails with NotRunning and changes nothing;
\* stop with a singleton succeeds and removes it; a stop right after a
\* successful stop fails with NotRunning.
C9_StopNotRunning ==
    [][ (last'.op = "stop") =>
            /\ IF server.some
               THEN last'.res = "Ok" /\ ~server'.some
               ELSE last'.res = "NotRunning" /\ UNCHANGED webVars
            /\ (last.op = "stop" /\ last.res = "Ok") => last'.res = "NotRunning" ]_vars

\* the second of two stops in a row has returned NotRunning
C9_Witness ==
    /\ last.op = "stop" /\ last.res = "NotRunning"
    /\ last.info.prev = <<"stop", "Ok">>
    /\ Started >= 1

\* C10 as stated: at most one listener task is running (accepting, or still
\* serving requests in flight).
C10_AtMostOneRunningTask ==
    Cardinality(RunningTasks) <= 1

\* C10 amended: at most one running listener task has not been told to shut
\* down, and it is the singleton's task; a task that was stopped may still
\* run (accepting until it sees the shutdown message, then serving its
\* requests in flight) beside a newly started one.
C10_AtMostOneLiveTask ==
    /\ Cardinality(LiveTasks) <= 1
    /\ server.some => LiveTasks = {server.gen}
    /\ ~server.some => LiveTasks = {}

\* a new server is up while the stopped one still serves a request
C10_Witness ==
    /\ server.some /\ server.gen = 2
    /\ tasks[1].state = "draining" /\ HandlersOf(1) # {}
    /\ tasks[2].state = "accepting"

\* C11: without a singleton, events() returns the empty list, clear() succeeds
\* and does nothing, status() returns None; none of them returns an error or
\* changes any state.
C11_QueriesWithoutSingleton ==
    [][ (~server.some /\ last'.op \in {"events", "clear", "status"}) =>
            /\ UNCHANGED webVars
            /\ last'.op = "events" => last'.res = <<>>
            /\ last'.op = "clear" => last'.res = "Ok"
            /\ last'.op = "status" => ~last'.info.some ]_vars

\* clear() has returned with no singleton while the buffer of a stopped
\* instance still holds events
C11_Witness ==
    /\ last.op = "clear" /\ last.res = "Ok"
    /\ ~server.some
    /\ \E g \in Gens : buffers[g] # <<>>

\* C12: right after stop the events are gone: events() has nothing to return,
\* the buffer of a newly started instance is empty, and events() only ever
\* returns events captured by the instance that is the singleton.
C12_EventsDestroyedOnStop ==
    /\ (last.op = "stop" /\ last.res = "Ok") => EventsOf(server) = <<>>
    /\ (last.op = "start" /\ last.res = "Ok") => EventsOf(server) = <<>>
    /\ last.op = "events" =>
           \A i \in DOMAIN last.res :
               /\ server.some
               /\ \A e \in BagToSet(captured) :
                      e.id = last.res[i] => e.gen = server.gen

\* events() of a second instance has returned nothing although the first
\* instance captured events, some of them after it was stopped
C12_Witness ==
    /\ last.op = "events" /\ last.res = <<>>
    /\ server.some /\ server.gen = 2
    /\ appended[1] # <<>>
    /\ tasks[1].state = "draining"

\* C13: a request whose body is longer than BodyLimit is captured with the
\* body cut to its first BodyLimit bytes, not with an empty body.
C13_OversizedBodyTruncated ==
    \A e \in BagToSet(captured) :
        e.req.readOk /\ e.req.len > BodyLimit => e.body.len = BodyLimit

\* a request with an oversized body was stored with the empty body and
\* answered 200
C13_Witness ==
    \E e \in BagToSet(captured) :
        /\ e.req.len > BodyLimit /\ e.req.readOk
        /\ e.body = EmptyBody
        /\ e.id \in {appended[1][i] : i \in DOMAIN appended[1]}
        /\ CopiesIn([id |-> e.id, status |-> 200], responses) = 1

\* The events with a request's id in a bag of events, with their counts.
CopiesOfId(bag, id) ==
    LET es == {e \in BagToSet(bag) : e.id = id} IN
    [e \in es |-> CopiesIn(e, bag)]

C15_AtMostOneTunnelAlive ==
    /\ Cardinality(AliveChildren) <= 1
    /\ (last.op = "tunnelStart" /\ last.info.old # NoChild) =>
           children[last.info.old] = "exited"

\* C16: stop_ngrok empties the slot only after the kill and the wait: right
\* after a stop that emptied the slot the child has exited, and right after a
\* stop that failed with TerminationError the child is still tracked.
C16_StopClearsOnlyAfterExit ==
    (last.op = "tunnelStop" /\ last.arg # NoChild) =>
        /\ ngrok = NoChild => children[last.arg] = "exited"
        /\ last.res = "TerminationError" => ngrok = last.arg

\* C17: stop_ngrok fails with NotRunning exactly when nothing is tracked, and
\* then changes nothing; the slot, once empty, stays empty until a start, so a
\* stop right after a successful stop fails with NotRunning.
C17_StopWithoutTunnel ==
    [][ /\ last'.op = "tunnelStop" =>
               /\ (ngrok = NoChild) <=> (last'.res = "NotRunning")
               /\ ngrok = NoChild => UNCHANGED tunnelVars
               /\ (last.op = "tunnelStop" /\ last.res = "Ok") =>
                      last'.res = "NotRunning"
        /\ (last'.op = "tunnelStop" /\ last'.res = "Ok") => ngrok' = NoChild
        /\ (ngrok = NoChild /\ ngrok' # NoChild) => last'.op = "tunnelStart" ]_vars

\* a stop right after a successful stop has failed with NotRunning
C17_Witness ==
    /\ last.op = "tunnelStop" /\ last.res = "NotRunning"
    /\ last.info.prev = <<"tunnelStop", "Ok">>
    /\ ngrok = NoChild

\* C18: with no subprocess tracked, get_ngrok_status returns None and makes no
\* request to the endpoint.
C18_StatusUntrackedNoQuery ==
    (last.op = "tunnelStatus" /\ ngrok = NoChild) =>
        last.res = "None" /\ ~last.info.queried

\* status has returned None without a request right after a failed start
C18_Witness ==
    /\ last.op = "tunnelStatus" /\ last.res = "None" /\ ~last.info.queried
    /\ last.info.prev = <<"tunnelStart", "LaunchError">>
    /\ ngrok = NoChild

\* C19 as stated: with a subprocess tracked, an unreachable endpoint, a
\* non-success response and an unparsable document each give an error.
C19_EveryQueryFailureIsError ==
    (last.op = "tunnelStatus" /\ last.info.queried) =>
        LET r == last.info.resp IN
        (~r.sent \/ ~r.success \/ ~r.json) => last.res = "Err"

\* C19: with a subprocess tracked, status is an error exactly when the
\* endpoint cannot be reached or a success response cannot be parsed; it is
\* None for a non-success response, for a missing or empty tunnel list and for
\* a missing or empty public URL, and without a tracked subprocess.
C19_StatusOutcomes ==
    last.op = "tunnelStatus" =>
        LET r == last.info.resp
            q == last.info.queried
            parsed == r.sent /\ r.success /\ r.json
            tunnel == r.tunnels = "some" /\ r.url = "url"
        IN  /\ q <=> (ngrok # NoChild)
            /\ (last.res = "Err") <=> (q /\ (~r.sent \/ (r.success /\ ~r.json)))
            /\ (last.res = "None") <=>
                   \/ ~q
                   \/ r.sent /\ ~r.success
                   \/ parsed /\ ~tunnel
            /\ (last.res = "Some") <=> (q /\ parsed /\ tunnel)

\* the endpoint answered with a non-success status and status returned None
C19_Witness ==
    /\ last.op = "tunnelStatus" /\ last.info.queried
    /\ last.info.resp.sent /\ ~last.info.resp.success
    /\ last.res = "None"
    /\ ngrok # NoChild

\* C20: a spawn that fails with SpawnError leaves the registry as it was and
\* starts no reader thread.
C20_FailedSpawnChangesNothing ==
    [][ (last'.op = "spawn" /\ last'.res = "SpawnError") =>
            /\ registry' = registry
            /\ readers' = readers
            /\ procs' = procs ]_vars

\* a spawn has failed while another child is tracked and being read
C20_Witness ==
    /\ last.op = "spawn" /\ last.res = "SpawnError"
    /\ registry # {}
    /\ \E p \in registry : ReadersOf(p) \subseteq readers

\* C21: the synchronous form of kill-all returns what the asynchronous form
\* returns from the same registry and the same kill results: the number of
\* pids whose kill returned true; both leave the registry empty.
C21_KillAllFormsAgree ==
    last.op = "quit" =>
        /\ last.res = last.info.async
        /\ last.res.res = "Ok"
        /\ last.res.count =
               Cardinality({p \in last.arg : last.info.results[p] = "true"})
        /\ last.res.registry = {}
        /\ registry = {}

\* quit with two tracked pids, the kill of one returning true and the kill of
\* the other an error
C21_Witness ==
    /\ last.op = "quit"
    /\ Cardinality(last.arg) = 2
    /\ \E p \in last.arg : last.info.results[p] = "Err"
    /\ \E p \in last.arg : last.info.results[p] = "true"
    /\ last.res.count = 1
    /\ last.info.async.count = 1

\* The characters of s at position i are those of the lower-case pat, in
\* either case.
MarkedAt(s, pat, i) ==
    /\ i + Len(pat) - 1 <= Len(s)
    /\ \A k \in 1..Len(pat) : to_lowercase_char(s[i + k - 1]) = pat[k]

Marked(s, pats) == \E pat \in pats : \E i \in 1..Len(s) : MarkedAt(s, pat, i)

\* C22: the level of a stdout line is "error" when the line has an error
\* marker in any case, else "warn" when it has a warn marker, else "debug"
\* when it has a debug marker, else "info".
C22_SeverityOrder ==
    (last.op = "line" /\ last.info.stream = "stdout") =>
        last.res.level =
            IF Marked(line, {<<"e", "r", "r", "o", "r">>, <<"[", "e", "r", "r", "]">>}) THEN "error"
            ELSE IF Marked(line, {<<"w", "a", "r", "n">>, <<"[", "w", "r", "n", "]">>}) THEN "warn"
            ELSE IF Marked(line, {<<"d", "e", "b", "u", "g">>, <<"[", "d", "b", "g", "]">>}) THEN "debug"
            ELSE "info"

\* a line with a warn marker, then an error marker, neither in lower case, is
\* "error"
C22_Witness ==
    /\ last.op = "line" /\ last.info.stream = "stdout"
    /\ line = <<"W", "a", "r", "n", "i", "n", "g", " ">> \o <<"[", "E", "R", "R", "]", " ">>
    /\ last.res.level = "error"

\* C23 as stated: a port phrase is used only when the line has no match of
\* the URL pattern; with a match the endpoint is the matched URL text.
C23_PhraseOnlyWithoutUrl ==
    (last.op = "line" /\ last.info.stream = "stdout") =>
        ((last.res.endpoint.some /\ url_captures(line).matched) =>
            last.res.endpoint.url = url_captures(line).text)

\* The digits without their leading zeros.
RECURSIVE StripZeros(_)
StripZeros(ds) ==
    IF Len(ds) > 1 /\ ds[1] = "0" THEN StripZeros(Tail(ds)) ELSE ds

\* The number written by at most five digits.
RECURSIVE Written(_)
Written(ds) ==
    IF ds = <<>> THEN 0
    ELSE Written(SubSeq(ds, 1, Len(ds) - 1)) * 10 + DigitValue(ds[Len(ds)])

\* The digits write a number that is at most PortMax.
WritesPort(ds) ==
    /\ Len(StripZeros(ds)) <= 5
    /\ Written(StripZeros(ds)) <= PortMax

\* C23: at most one endpoint per stdout line.  When the URL pattern matches
\* and its port is a 16-bit number, the endpoint is the matched URL text and
\* that port, whatever port phrase the line has; else, when the port phrase
\* matches with a 16-bit number, the endpoint is http://localhost:PORT with
\* the phrase's port; else there is none.
C23_UrlBeforePhrase ==
    (last.op = "line" /\ last.info.stream = "stdout") =>
        LET u == url_captures(line)
            p == port_captures(line)
            e == last.res.endpoint
        IN  IF u.matched /\ WritesPort(u.digits)
            THEN e = Endpoint(u.text, Written(StripZeros(u.digits)))
            ELSE IF p.matched /\ WritesPort(p.digits)
            THEN e = Endpoint(<<"h", "t", "t", "p", ":", "/", "/", "l", "o", "c", "a", "l", "h", "o", "s", "t", ":">> \o StripZeros(p.digits),
                              Written(StripZeros(p.digits)))
            ELSE e = NoEndpoint

\* a line with a port phrase for 8080 and then a URL for 3000 gives the URL
C23_Witness ==
    /\ last.op = "line" /\ last.info.stream = "stdout"
    /\ line = <<"L", "i", "s", "t", "e", "n", "i", "n", "g", " ", "o", "n", " ", "p", "o", "r", "t", " ", "8", "0", "8", "0", " ">> \o <<"h", "t", "t", "p", ":", "/", "/", "l", "o", "c", "a", "l", "h", "o", "s", "t", ":", "3", "0", "0", "0">>
    /\ port_captures(line).matched
    /\ last.res.endpoint = Endpoint(<<"h", "t", "t", "p", ":", "/", "/", "l", "o", "c", "a", "l", "h", "o", "s", "t", ":", "3", "0", "0", "0">>, 3000)

\* C24: an endpoint is reported only for a match whose digits write a number
\* that is at most 65535, and the reported port is that number; a line whose
\* matches all write a larger number has no endpoint.
C24_PortIsU16 ==
    (last.op = "line" /\ last.info.stream = "stdout") =>
        LET matches == {m \in {url_captures(line), port_captures(line)} : m.matched}
            e == last.res.endpoint
        IN  /\ e.some =>
                  /\ e.port \in 0..PortMax
                  /\ \E m \in matches : /\ WritesPort(m.digits)
                                        /\ e.port = Written(StripZeros(m.digits))
            /\ (\A m \in matches : ~WritesPort(m.digits)) => ~e.some

\* the URL of port 65536 is discarded, the URL of port 65535 after it is not
\* looked at: the leftmost match had no 16-bit port
C24_Witness ==
    /\ last.op = "line" /\ last.info.stream = "stdout"
    /\ line = <<"h", "t", "t", "p", ":", "/", "/", "0", ".", "0", ".", "0", ".", "0", ":", "6", "5", "5", "3", "6">> \o <<"h", "t", "t", "p", "s", ":", "/", "/", "1", "2", "7", ".", "0", ".", "0", ".", "1", ":", "6", "5", "5", "3", "5", "/">>
    /\ url_captures(line).matched
    /\ ~last.res.endpoint.some

\* A token was looked up for a repository that has a remote URL.
LookedUp == last.op \in {"git_status", "git_pull"} /\ remote # <<>>

\* The tokens whose pattern is not "*" and matched the remote URL.
SpecificMatches ==
    {i \in DOMAIN tokens : tokens[i].pattern # <<"*">> /\ last.info.matches[i]}

\* C25 as stated: when non-wildcard patterns match, the token returned is
\* the one of the longest of them; the wildcard's token is returned only when
\* none matches; with no match and no wildcard there is no token.
C25_LongestPatternWins ==
    LookedUp =>
        IF SpecificMatches # {}
        THEN /\ last.res.some
             /\ \E i \in SpecificMatches :
                    /\ last.res.token = tokens[i].token
                    /\ \A j \in SpecificMatches :
                           Len(tokens[j].pattern) <= Len(tokens[i].pattern)
        ELSE IF \E i \in DOMAIN tokens : tokens[i].pattern = <<"*">>
        THEN /\ last.res.some
             /\ \E i \in DOMAIN tokens : /\ tokens[i].pattern = <<"*">>
                                         /\ last.res.token = tokens[i].token
        ELSE last.res = NoToken

\* the token of "github.com/*", first in the list, is returned for a URL
\* that the longer "github.com/org/*" matches too
C25_Witness ==
    /\ LookedUp
    /\ remote = <<"h", "t", "t", "p", "s", ":", "/", "/", "g", "i", "t", "h", "u", "b", ".", "c", "o", "m", "/", "o", "r", "g", "/", "r", "e", "p", "o", ".", "g", "i", "t">>
    /\ Len(tokens) = 2
    /\ tokens[1].pattern = <<"g", "i", "t", "h", "u", "b", ".", "c", "o", "m", "/", "*">>
    /\ tokens[2].pattern = <<"g", "i", "t", "h", "u", "b", ".", "c", "o", "m", "/", "o", "r", "g", "/", "*">>
    /\ SpecificMatches = {1, 2}
    /\ last.res = SomeToken(tokens[1].token)

\* The tokens whose pattern has no '*'.
ExactPatterns == {i \in DOMAIN tokens : \A k \in 1..Len(tokens[i].pattern) : tokens[i].pattern[k] # "*"}

Inside(s, t) ==
    \E k \in 0..(Len(t) - Len(s)) : \A c \in 1..Len(s) : t[k + c] = s[c]

HasPrefix(s, t) == Len(t) <= Len(s) /\ \A c \in 1..Len(t) : s[c] = t[c]

\* The last characters of s are those of t.
HasSuffix(s, t) == Len(t) <= Len(s) /\ \A c \in 1..Len(t) : s[Len(s) - Len(t) + c] = t[c]

\* C27: "*" matches every URL; a pattern ending in "/*" matches exactly the
\* URLs whose normalized form starts with the pattern less its last
\* character; a pattern with one '*' that does not end in "/*" matches exactly
\* the URLs whose normalized form starts with what is before the '*' and ends
\* with what is after it.
C27_MatchByShape ==
    LookedUp =>
        \A i \in DOMAIN tokens :
            LET pat == tokens[i].pattern
                n == normalized_url(remote)
                slashStar == Len(pat) >= 2 /\ pat[Len(pat) - 1] = "/" /\ pat[Len(pat)] = "*"
                stars == {k \in 1..Len(pat) : pat[k] = "*"}
            IN  /\ pat = <<"*">> => last.info.matches[i]
                /\ slashStar =>
                       (last.info.matches[i] <=> HasPrefix(n, SubSeq(pat, 1, Len(pat) - 1)))
                /\ (pat # <<"*">> /\ ~slashStar /\ Cardinality(stars) = 1) =>
                       LET k == CHOOSE k \in stars : TRUE IN
                       last.info.matches[i] <=>
                           /\ HasPrefix(n, SubSeq(pat, 1, k - 1))
                           /\ HasSuffix(n, SubSeq(pat, k + 1, Len(pat)))

\* "github.com/*-two" matches repo-two's URL and "github.com/org/*" matches
\* it by its prefix
C27_Witness ==
    /\ LookedUp
    /\ remote = <<"h", "t", "t", "p", "s", ":", "/", "/", "g", "i", "t", "h", "u", "b", ".", "c", "o", "m", "/", "o", "r", "g", "/", "r", "e", "p", "o", "-", "t", "w", "o", ".", "g", "i", "t">>
    /\ Len(tokens) = 2
    /\ tokens[1].pattern = <<"g", "i", "t", "h", "u", "b", ".", "c", "o", "m", "/", "*", "-", "t", "w", "o">>
    /\ tokens[2].pattern = <<"g", "i", "t", "h", "u", "b", ".", "c", "o", "m", "/", "o", "r", "g", "/", "*">>
    /\ last.info.matches = <<TRUE, TRUE>>

\* C28: the registry changes only when a spawn that returned Ok inserts its
\* pid, when a kill that returned true removes its pid, and when kill-all
\* empties it; the end of a tracked process, status probes, failed spawns,
\* failed kills and the commands of the capture server and of the tunnel
\* leave it as it was.
C28_RegistryFrame ==
    [][registry' # registry =>
          \/ /\ last'.op = "spawn" /\ last'.res = "Ok"
             /\ registry' = registry \cup {last'.arg}
          \/ /\ last'.op = "kill" /\ last'.res = "true"
             /\ registry' = registry \ {last'.arg}
          \/ /\ last'.op \in {"killAll", "quit"}
             /\ registry' = {}]_vars

\* a tracked child has ended and a probe has found it gone: it is still in
\* the registry, next to a running capture server
C28_Witness ==
    /\ last.op = "process_status"
    /\ ~last.res.running
    /\ last.arg \in registry
    /\ procs[last.arg] = "free"
    /\ server.some

\* C29 as stated: every pid that kill-all removes from the registry is one
\* it attempted to kill.
C29_KillAllRemovesOnlyAttempted ==
    [][last'.op = "killAll" =>
          (registry \ registry') \subseteq last'.info.attempted]_vars

\* C30: kill(pid) signals the process group first and the process alone only
\* when the group signal did not succeed; it returns true exactly when one of
\* the two signals succeeded.
C30_GroupThenSingle ==
    last.op = "kill" =>
        /\ last.info.group \in {"success", "failure", "error"}
        /\ (last.info.single = "skipped") <=> (last.info.group = "success")
        /\ (last.res = "true") <=>
               (last.info.group = "success" \/ last.info.single = "success")

\* the group signal failed and the signal to the process alone succeeded
C30_Witness ==
    /\ last.op = "kill"
    /\ last.info.group = "failure"
    /\ last.info.single = "success"
    /\ last.res = "true"

\* The events a reader has emitted in the step, after those it had emitted.
NewEvents(r) == SubSeq(emittedBy'[r], Len(emittedBy[r]) + 1, Len(emittedBy'[r]))

\* C31: every line read from stdout gives one log event with the detected
\* level and the working directory as path, followed by one URL event exactly
\* when detect_url finds an endpoint in the line; every line read from stderr
\* gives one log event of level "error" and no URL event.
C31_EventsPerLine ==
    [][\A p \in Pids, st \in Streams :
          LET r == <<p, st>> IN
          /\ (last'.op = "line" /\ last'.arg = p /\ last'.info.stream = st)
                 => emittedBy'[r] # emittedBy[r]
          /\ emittedBy'[r] # emittedBy[r] =>
                 LET text == Head(pipes[r]).text
                     new == NewEvents(r)
                     found == detect_url(text)
                 IN  /\ SubSeq(emittedBy'[r], 1, Len(emittedBy[r])) = emittedBy[r]
                     /\ Len(new) = IF st = "stdout" /\ found.some THEN 2 ELSE 1
                     /\ new[1] = [event |-> "process-log", path |-> CwdOf(p),
                                  level |-> IF st = "stdout" THEN detect_log_level(text)
                                            ELSE "error",
                                  message |-> text]
                     /\ Len(new) = 2 =>
                            new[2] = [event |-> "process-url", path |-> CwdOf(p),
                                      url |-> found.url, port |-> found.port]]_vars

\* the same line was read from both streams of child 1: stdout gave a log and
\* a URL event, stderr one "error" log event
C31_Witness ==
    /\ Len(emittedBy[<<1, "stdout">>]) = 2
    /\ emittedBy[<<1, "stdout">>][1].level = "info"
    /\ emittedBy[<<1, "stdout">>][2] =
           UrlEvent(CwdOf(1), <<"h", "t", "t", "p", ":", "/", "/", "l", "o", "c", "a", "l", "h", "o", "s", "t", ":", "8", "0", "8", "0">>, 8080)
    /\ emittedBy[<<1, "stderr">>] =
           <<LogEvent(CwdOf(1), "error", <<"L", "i", "s", "t", "e", "n", "i", "n", "g", " ", "o", "n", " ", "p", "o", "r", "t", " ", "8", "0", "8", "0", " ">>)>>

\* The lines whose log events are in evs, in the order of the events.
RECURSIVE LinesLogged(_)
LinesLogged(evs) ==
    IF Len(evs) = 0 THEN <<>>
    ELSE IF Head(evs).event = "process-log"
         THEN <<WrittenLine(Head(evs).message)>> \o LinesLogged(Tail(evs))
         ELSE LinesLogged(Tail(evs))

\* C32: in every step the lines a reader has logged, followed by the lines
\* left in its pipe, are what they were before the step: lines are logged in
\* the order written, none skipped, none twice.  A reader that has stopped,
\* or whose next line does not decode, emits nothing more and takes nothing
\* more from its pipe; a reader that stops returns nothing, and does not
\* start again.
C32_StreamOrder ==
    [][\A r \in Pids \X Streams :
          /\ LinesLogged(emittedBy'[r]) \o pipes'[r] = LinesLogged(emittedBy[r]) \o pipes[r]
          /\ (r \notin readers \/ (Len(pipes[r]) > 0 /\ ~Head(pipes[r]).ok)) =>
                 /\ emittedBy'[r] = emittedBy[r]
                 /\ pipes'[r] = pipes[r]
          /\ r \notin readers => r \notin readers'
          /\ (r \in readers /\ r \notin readers') => last' = NoReturn]_vars

\* the stdout reader has logged two lines in the order written; the stderr
\* reader has stopped at a broken line with a line after it left unread
C32_Witness ==
    /\ LinesLogged(emittedBy[<<1, "stdout">>]) =
           <<WrittenLine(<<"L", "i", "s", "t", "e", "n", "i", "n", "g", " ", "o", "n", " ", "p", "o", "r", "t", " ", "8", "0", "8", "0", " ">>), WrittenLine(<<"W", "a", "r", "n", "i", "n", "g", " ">>)>>
    /\ <<1, "stderr">> \notin readers
    /\ emittedBy[<<1, "stderr">>] = <<>>
    /\ Len(pipes[<<1, "stderr">>]) = 2
    /\ pipes[<<1, "stderr">>][1] = BrokenLine
    /\ pipes[<<1, "stderr">>][2] = WrittenLine(<<"W", "a", "r", "n", "i", "n", "g", " ">>)

\* C33: in every buffer the events stand in the order of their capture
\* timestamps: an event at an earlier position was not received later than
\* one at a later position.
C33_BufferInArrivalOrder ==
    \A g \in Gens : \A i, j \in 1..Len(buffers[g]) :
        i < j => timestamp_millis(buffers[g][i]) <= timestamp_millis(buffers[g][j])

\* two handlers were in flight together and both have stored their event
C33_Witness ==
    /\ Len(buffers[1]) = 2
    /\ \E h \in handlers : h.pc = "emit" /\ h.id = 1
    /\ \E h \in handlers : h.pc = "emit" /\ h.id = 2

\* C35: a start that fails with BindError installs no singleton and spawns no
\* listener task: server, tasks and buffers are as before and the slot is
\* empty; a status query that follows returns None, and a start that follows
\* is not rejected with AlreadyRunning, which is returned only while a
\* singleton exists.
C35_BindFailureLeavesNothing ==
    [][/\ (last'.op = "start" /\ last'.res = "BindError") =>
              /\ ~server'.some
              /\ server' = server
              /\ tasks' = tasks
              /\ buffers' = buffers
       /\ (last.op = "start" /\ last.res = "BindError" /\ last'.op = "status") =>
              ~last'.info.some
       /\ (last.op = "start" /\ last.res = "BindError" /\ last'.op = "start") =>
              last'.res # "AlreadyRunning"
       /\ (last'.op = "start" /\ last'.res = "AlreadyRunning") => server.some]_vars

\* a start has failed on the port a stopped instance's listener still holds
C35_Witness ==
    /\ last.op = "start" /\ last.res = "BindError"
    /\ ~server.some
    /\ tasks[1].state = "accepting" /\ tasks[1].signalled
    /\ tasks[1].port = last.arg
    /\ tasks[2].state = "unborn"

\* C36: a status query finds out that the tracked tunnel subprocess has
\* exited: it goes on to the local status API only while the subprocess in
\* the slot is alive, and reports no tunnel otherwise.
C36_StatusChecksLiveness ==
    (last.op = "tunnelStatus" /\ last.info.queried) =>
        (ngrok # NoChild /\ children[ngrok] = "alive")

\* a status query has returned while the slot holds a subprocess that exited
C36_Witness ==
    /\ last.op = "tunnelStatus"
    /\ ngrok # NoChild
    /\ children[ngrok] = "exited"

\* C40: when start_ngrok fails with LaunchError the slot is empty, and the
\* subprocess that was tracked before the call, if any, has been terminated
\* and waited for.
C40_LaunchFailureLeavesNone ==
    (last.op = "tunnelStart" /\ last.res = "LaunchError") =>
        /\ ngrok = NoChild
        /\ last.info.old # NoChild => children[last.info.old] = "exited"

\* a start has failed to launch while a tunnel was tracked; the old
\* subprocess was killed and the slot is empty
C40_Witness ==
    /\ last.op = "tunnelStart" /\ last.res = "LaunchError"
    /\ last.info.old # NoChild
    /\ last.info.kill = "Ok" /\ last.info.wait = "Ok"
    /\ children[last.info.old] = "exited"
    /\ ngrok = NoChild

\* The instance whose listener accepted the request of a stored event.
InstanceOf(id, stored) == (CHOOSE e \in BagToSet(stored) : e.id = id).gen

\* C39: every buffer holds only events captured by handlers of its own
\* instance, events() returns only events of the current singleton's
\* instance, and a handler that finishes pushes its event to the sink
\* whether or not its server has been stopped.
C39_BuffersNotShared ==
    [][/\ \A g \in Gens : \A i \in 1..Len(buffers'[g]) :
              InstanceOf(buffers'[g][i], captured') = g
       /\ last'.op = "events" =>
              \A i \in 1..Len(last'.res) :
                  server.some /\ InstanceOf(last'.res[i], captured) = server.gen
       /\ \A h \in handlers :
              (h.pc = "emit" /\ h \notin handlers') =>
                  sink' = sink (+) SetToBag({EventOf(h)})]_vars

\* the listener of stopped instance 1 took request 2 after instance 2 had
\* taken request 1: its event is in buffer 1 and in the sink, and events()
\* has returned the buffer of instance 2 without it
C39_Witness ==
    /\ server.some /\ server.gen = 2
    /\ last.op = "events" /\ last.res = <<1>>
    /\ buffers[1] = <<2>>
    /\ \E e \in BagToSet(sink) : e.id = 2 /\ e.gen = 1
    /\ \E e \in BagToSet(captured) : e.id = 1 /\ e.gen = 2

\* The callers that hold the SERVER mutex according to their position.
HoldingServer == {c \in Callers : calls[c].pc \in {"locked", "bind", "lockedEvents"}}

\* C37: start calls made concurrently are serialised by the SERVER mutex,
\* which a start holds from its check to its return.  At most one caller
\* holds it.  A start that returns Ok found no singleton and installs one, and
\* every instance started while it was waiting has been stopped since: of the
\* starts in flight together with no stop between them at most one succeeds.
\* A start that finds a singleton returns AlreadyRunning and changes nothing;
\* one that finds none and does not succeed returns BindError.
C37_OneStartWins ==
    [][/\ Cardinality(HoldingServer) <= 1
       /\ \A c \in HoldingServer : serverLock = c
       /\ \A c \in Callers :
            (calls[c].op = "start" /\ calls'[c] = NoCall) =>
                /\ last'.op = "start"
                /\ last'.res = "Ok" =>
                       /\ ~server.some /\ server'.some
                       /\ \A g \in (calls[c].since + 1)..Started : tasks[g].signalled
                /\ server.some =>
                       /\ last'.res = "AlreadyRunning"
                       /\ server' = server /\ tasks' = tasks
                /\ (~server.some /\ last'.res # "Ok") => last'.res = "BindError"]_vars

\* two starts were invoked while nothing had been started; one has installed
\* instance 1, which is still the singleton, and the other has just been
\* rejected
C37_Witness ==
    /\ last.op = "start" /\ last.res = "AlreadyRunning"
    /\ last.info.since = 0
    /\ Started = 1
    /\ server.some /\ server.gen = 1
    /\ ~tasks[1].signalled

\* C38: the commands and the handlers never wait for each other in a circle:
\* a command holds the events mutex only while it holds SERVER, a handler that
\* holds the events mutex waits for nothing, and so every command invoked
\* returns and every handler in flight answers.
C38_EveryCallReturns ==
    /\ [](\A g \in Gens : eventsLock[g].by = "call" => serverLock = eventsLock[g].id)
    /\ \A c \in Callers : (calls[c] # NoCall) ~> (calls[c] = NoCall)
    /\ (handlers # {}) ~> (handlers = {} /\ BagCardinality(responses) = accepted)

\* caller 1 holds SERVER in events() and waits for the buffer a handler
\* holds, while caller 2 waits for SERVER
C38_Witness ==
    /\ calls[1] = [op |-> "events", pc |-> "locked", since |-> 0]
    /\ serverLock = 1
    /\ server.some /\ eventsLock[server.gen].by = "handler"
    /\ calls[2].pc = "lockServer"

\* The instance was started and is not the singleton: it has been stopped.
Stopped(g) == tasks[g].state # "unborn" /\ ~(server.some /\ server.gen = g)

\* C34: once an instance has been stopped its listener comes to accept no
\* connection, and from then on never accepts one; every handler of a stopped
\* instance that is in flight comes to its end, its event emitted and its
\* response sent.
C34_GracefulStop ==
    /\ \A g \in Gens : Stopped(g) ~> (tasks[g].state \in {"draining", "done"})
    /\ [][\A g \in Gens : tasks[g].state \in {"draining", "done"} =>
              /\ tasks'[g].state \in {"draining", "done"}
              /\ \A h \in handlers' : h.gen = g => \E k \in handlers : k.id = h.id]_vars
    /\ \A i \in 1..MaxRequests :
          (\E h \in handlers : h.id = i /\ Stopped(h.gen)) ~>
              /\ \E e \in BagToSet(sink) : e.id = i
              /\ \E r \in BagToSet(responses) : r.id = i
              /\ \A h \in handlers : h.id # i

\* instance 1 was stopped with a request in flight: its listener has stopped
\* accepting while the handler has not yet stored the event
C34_Witness ==
    /\ Stopped(1)
    /\ tasks[1].state = "draining"
    /\ \E h \in handlers : h.gen = 1 /\ h.pc = "store"

====
